---- MODULE Spec2Model ----
(***************************************************************************)
(* Rotation of Letterboxd "showdown" collections: the sliding-window       *)
(* selector, the spotlight advance, the per-slug lifecycle tracker and the *)
(* JSON state document they share between runs                             *)
(* (collectors/featured/showdown/__init__.py, storage.py).                 *)
(*                                                                         *)
(* Python values are modelled as follows.  A dict is a function whose      *)
(* DOMAIN is its key set (the empty dict is <<>>); a list is a sequence;   *)
(* list indices and window_position are kept 0-based as in the code and    *)
(* converted where a sequence is sliced or indexed.  A ShowdownAvailability*)
(* record is represented by its slug.  None, as a spotlight, is the string *)
(* NoSpotlight, which is no slug.                                          *)
(*                                                                         *)
(* A key of the state document whose JSON value has the wrong type (a      *)
(* window_position that is no integer, a collection_lifecycles or          *)
(* collection_titles that is no object) is written under the key's marker  *)
(* (MarkerOf), its value naming the JSON type found; the key itself is     *)
(* then not in the DOMAIN of the model's function.                         *)
(***************************************************************************)
EXTENDS Integers, Sequences, FiniteSets, TLC

VARIABLES
    state_file,        \* the rotation document on disk: [kind, data]
    ordered,           \* input of the last call: the ordered availability list
    window,            \* input of the last call: the configured window size
    below,             \* input of the last run: dataset slugs under the threshold
    selected,          \* output of the last call: the selected window
    spotlight,         \* output of the last call: the spotlight, or NoSpotlight
    prev_file,         \* the rotation document as it was before the last call
    prev_lifecycles,   \* the lifecycle mapping handed to the tracker by the last call
    lifecycle_state,   \* the in-memory lifecycle mapping after the last call
    outcome,           \* how the last call ended: "idle" before any call
    io,                \* the state-file accesses of the last call, in order
    trail,             \* spotlights of the consecutive runs since position 0
    retired_names,     \* output of the last run: the retired display names
    pending,           \* the document a save_state in progress is writing
    datasets,          \* input of the evaluator: the dataset items, in order
    tmdb_index,        \* input of the evaluator: the identifiers in the library
    threshold,         \* input of the evaluator: the configured threshold
    sort_mode,         \* input of the sorter: the configured sort mode
    availability,      \* the availability records: evaluator output, sorter input
    sorted,            \* output of the sorter: the records in rotation order
    last_run,          \* the run before the last one: its inputs and its window
    procs              \* two runs on one state file: each run's position and locals

\* the variables of the evaluator and the sorter
evalVars == <<datasets, tmdb_index, threshold, sort_mode, availability, sorted>>

\* the variables of the specifications about two runs
seriesVars == <<last_run, procs>>

vars == <<state_file, ordered, window, below, selected, spotlight, prev_file,
          prev_lifecycles, lifecycle_state, outcome, io, trail, retired_names,
          pending, datasets, tmdb_index, threshold, sort_mode, availability,
          sorted, last_run, procs>>

\* no run before the last one
NoRun == [outcome |-> "none", ordered |-> <<>>, window |-> 0, selected |-> <<>>]

\* a specification about one run at a time keeps no earlier run and no second run
SeriesUnused ==
    /\ last_run = NoRun
    /\ procs = <<>>

\* a call that starts from the ordered list has no evaluator or sorter inputs
EvalUnused ==
    /\ datasets = <<>>
    /\ tmdb_index = {}
    /\ threshold = 0
    /\ sort_mode = "none"
    /\ availability = <<>>
    /\ sorted = <<>>

----------------------------------------------------------------------------
(* Bounds of the model *)

\* longest ordered list of the run-level specification
MaxLen == 3
\* largest configured window of the run-level specification
MaxWindow == 3
\* longest ordered list of the selector-level specification
MaxSelLen == 7
\* largest window size of the selector-level specification
MaxSelWindow == 6

\* longest ordered list of the specification of consecutive runs
MaxPairLen == 5
\* largest window size of the specification of consecutive runs
MaxPairWindow == 4

\* largest window size of the specification of two overlapping runs
MaxOverlapWindow == 2

\* a configured window below zero, next to the window sizes from 0 up
NegativeWindow == -1

\* slugs of the run-level and tracker-level specifications
Slugs == {"a", "b", "c"}
\* the ranked universe the selector-level lists are prefixes of
Ranked == <<"r0", "r1", "r2", "r3", "r4", "r5", "r6", "r7", "r8", "r9">>

NoSpotlight == "<None>"

\* no series of consecutive runs is under way
NoTrail == [list |-> <<>>, spots |-> <<>>]

----------------------------------------------------------------------------
(* Python helpers *)

Min(x, y) == IF x <= y THEN x ELSE y
Max(x, y) == IF x >= y THEN x ELSE y

EmptyDict == <<>>

\* d.get(key, default)
Get(d, key, default) == IF key \in DOMAIN d THEN d[key] ELSE default

\* d[key] = value
Put(d, key, value) ==
    [k \in (DOMAIN d) \cup {key} |-> IF k = key THEN value ELSE d[k]]

\* the marker under which a document key with a value of the wrong JSON type
\* is written
MarkerOf(key) ==
    CASE key = "window_position" -> "window_position/non-integer"
      [] key = "collection_lifecycles" -> "collection_lifecycles/non-object"
      [] key = "collection_titles" -> "collection_titles/non-object"

\* state[key] = value on a loaded document: whatever the key held is replaced
SetField(state, key, value) ==
    [k \in ((DOMAIN state) \ {MarkerOf(key)}) \cup {key} |->
        IF k = key THEN value ELSE state[k]]

\* isinstance(state.get(key), dict)
HoldsDict(state, key) == key \in DOMAIN state

\* seq[lo:hi] with Python's slice semantics (negative bounds count from the end)
PySlice(seq, lo, hi) ==
    LET n  == Len(seq)
        l0 == IF lo < 0 THEN Max(0, lo + n) ELSE Min(lo, n)
        h0 == IF hi < 0 THEN Max(0, hi + n) ELSE Min(hi, n)
    IN  SubSeq(seq, l0 + 1, h0)

\* seq[i] with Python's index semantics (a negative index counts from the end)
PyIndex(seq, i) == IF i >= 0 THEN seq[i + 1] ELSE seq[Len(seq) + i + 1]

\* the elements of a sequence
Range(seq) == {seq[i] : i \in 1..Len(seq)}

----------------------------------------------------------------------------
(* storage.py: the rotation state store *)

\* What the file at state_path is: "absent", an "object" (a JSON object, data
\* holds it), "unreadable" (open fails with an OSError), "invalid_json" (text
\* that is no JSON document: empty, cut short or garbled), "non_object" (a
\* JSON document that is no object) or "undecodable" (bytes that are no UTF-8).
AbsentFile == [kind |-> "absent", data |-> EmptyDict]
ObjectFile(doc) == [kind |-> "object", data |-> doc]
OtherFile(kind) == [kind |-> kind, data |-> EmptyDict]

\* lines 93-97: the except clause names OSError and json.JSONDecodeError; the
\* UnicodeDecodeError of a file that is no UTF-8 is neither and propagates
load_state_raises(file) == file.kind = "undecodable"

\* load_state: {} when the file does not exist, cannot be opened, is no JSON
\* or no JSON object, else the decoded object
load_state(file) == IF file.kind = "object" THEN file.data ELSE EmptyDict

\* line 107: open(path, "w") leaves an empty file until json.dump has written
TruncatedFile == OtherFile("invalid_json")

\* save_state: the file then holds the whole document
save_state(data) == ObjectFile(data)

----------------------------------------------------------------------------
(* _select_sliding_window_and_spotlight *)

\* a stored position that is clamped into [0, n-1] instead of reset
CurrentSpotlightPositionClamped(state, n) ==
    LET p == Get(state, "window_position", 0)
    IN  IF p < 0 THEN 0 ELSE IF p >= n THEN n - 1 ELSE p

\* lines 269-273: the stored position, reset to 0 when missing or out of range
CurrentSpotlightPosition(state, n) ==
    LET p == Get(state, "window_position", 0)
    IN  IF p < 0 \/ p >= n THEN 0 ELSE p

\* a selector that leaves no records before the spotlight
SpotlightOffsetZero(w) == 0

\* an offset of half the window, not capped at 2
SpotlightOffsetHalf(w) == w \div 2

\* line 277
SpotlightOffset(w) == Min(2, w \div 2)

\* line 278
CenteredStart(p, w) == Max(0, p - SpotlightOffset(w))

\* line 279
WindowEnd(p, w, n) == Min(CenteredStart(p, w) + w, n)

\* a start that is never slid left: the window is truncated at the end of the list
WindowStartTruncating(p, w, n) == CenteredStart(p, w)

\* lines 278-283: the start, slid left when the window hit the end of the list
WindowStart(p, w, n) ==
    LET ws == CenteredStart(p, w)
        we == WindowEnd(p, w, n)
    IN  IF we - ws < w /\ ws > 0 THEN Max(0, we - w) ELSE ws

\* line 286
SelectedWindow(ord, p, w) ==
    PySlice(ord, WindowStart(p, w, Len(ord)), WindowEnd(p, w, Len(ord)))

\* a spotlight index taken against the start as it was before the slide left
SpotlightOfCenteredIndex(ord, p, w) ==
    LET sel == SelectedWindow(ord, p, w)
        idx == p - CenteredStart(p, w)
    IN  IF idx < Len(sel) THEN PyIndex(sel, idx) ELSE NoSpotlight

\* the index within the window applied to the whole ordered list
SpotlightOfFromOrdered(ord, p, w) ==
    LET sel == SelectedWindow(ord, p, w)
        idx == p - WindowStart(p, w, Len(ord))
    IN  IF idx < Len(sel) THEN PyIndex(ord, idx) ELSE NoSpotlight

\* lines 289-294
SpotlightOf(ord, p, w) ==
    LET sel == SelectedWindow(ord, p, w)
        idx == p - WindowStart(p, w, Len(ord))
    IN  IF idx < Len(sel) THEN PyIndex(sel, idx) ELSE NoSpotlight

\* a rotation that advances by two records
NextSpotlightPositionByTwo(p, n) == IF p + 2 >= n THEN 0 ELSE p + 2

\* a wrap that comes one run late
NextSpotlightPositionLateWrap(p, n) == IF p + 1 > n THEN 0 ELSE p + 1

\* lines 297-300
NextSpotlightPosition(p, n) == IF p + 1 >= n THEN 0 ELSE p + 1

\* line 272: comparing a window_position that is no integer (null, a string,
\* a list) with 0 raises TypeError
PositionRaises(state) == MarkerOf("window_position") \in DOMAIN state

\* a selector call that returns nothing and leaves the file as it is; raised
\* names the exception it ends with, "" when it returns
SelectorWithoutSave(file, io_log, raised) ==
    [selected |-> <<>>, spotlight |-> NoSpotlight, file |-> file, io |-> io_log,
     raised |-> raised]

\* the whole selector: what it returns, the file it leaves and its file accesses
SelectSlidingWindowAndSpotlight(ord, w, file) ==
    IF Len(ord) = 0 \/ w <= 0
    THEN SelectorWithoutSave(file, <<>>, "")
    ELSE IF load_state_raises(file)
    THEN SelectorWithoutSave(file, <<"load">>, "UnicodeDecodeError")
    ELSE IF PositionRaises(load_state(file))
    THEN SelectorWithoutSave(file, <<"load">>, "TypeError")
    ELSE LET state == load_state(file)
             p     == CurrentSpotlightPosition(state, Len(ord))
             saved == SetField(state, "window_position",
                               NextSpotlightPosition(p, Len(ord)))
         IN  [selected  |-> SelectedWindow(ord, p, w),
              spotlight |-> SpotlightOf(ord, p, w),
              file      |-> save_state(saved),
              io        |-> <<"load", "save">>,
              raised    |-> ""]

----------------------------------------------------------------------------
(* _update_collection_lifecycles *)

\* a tracker that leaves a retired slug retired when it is back in the window
UpdateSlugRetireSticky(lc, slug, selected_slugs, spotlight_slug) ==
    IF slug = spotlight_slug
    THEN Put(lc, slug, "spotlight")
    ELSE IF slug \in selected_slugs
         THEN IF slug \notin DOMAIN lc \/ lc[slug] = "spotlight"
              THEN Put(lc, slug, "library")
              ELSE lc
         ELSE IF slug \in DOMAIN lc /\ lc[slug] \in {"spotlight", "library"}
              THEN Put(lc, slug, "retire")
              ELSE lc

\* a tracker that takes every slug of the ordered list to be in the window
UpdateSlugNoWindowTest(lc, slug, selected_slugs, spotlight_slug) ==
    IF slug = spotlight_slug
    THEN Put(lc, slug, "spotlight")
    ELSE IF slug \notin DOMAIN lc \/ lc[slug] \in {"spotlight", "retire"}
         THEN Put(lc, slug, "library")
         ELSE lc

\* a tracker that retires every slug outside the window, known or not
UpdateSlugRetiresUnknown(lc, slug, selected_slugs, spotlight_slug) ==
    IF slug = spotlight_slug
    THEN Put(lc, slug, "spotlight")
    ELSE IF slug \in selected_slugs
         THEN IF slug \notin DOMAIN lc \/ lc[slug] \in {"spotlight", "retire"}
              THEN Put(lc, slug, "library")
              ELSE lc
         ELSE Put(lc, slug, "retire")

\* a tracker that demotes nothing inside the window: the spotlight of the
\* last run keeps its status while it stays in the window
UpdateSlugKeepsSpotlight(lc, slug, selected_slugs, spotlight_slug) ==
    IF slug = spotlight_slug
    THEN Put(lc, slug, "spotlight")
    ELSE IF slug \in selected_slugs
         THEN IF slug \notin DOMAIN lc \/ lc[slug] = "retire"
              THEN Put(lc, slug, "library")
              ELSE lc
         ELSE IF slug \in DOMAIN lc /\ lc[slug] \in {"spotlight", "library"}
              THEN Put(lc, slug, "retire")
              ELSE lc

\* a tracker that leaves the slugs outside the window as they are
UpdateSlugKeepsOutsiders(lc, slug, selected_slugs, spotlight_slug) ==
    IF slug = spotlight_slug
    THEN Put(lc, slug, "spotlight")
    ELSE IF slug \in selected_slugs
         THEN IF slug \notin DOMAIN lc \/ lc[slug] \in {"spotlight", "retire"}
              THEN Put(lc, slug, "library")
              ELSE lc
         ELSE lc

\* lines 333-347 for one slug of the ordered list
UpdateSlug(lc, slug, selected_slugs, spotlight_slug) ==
    IF slug = spotlight_slug
    THEN Put(lc, slug, "spotlight")
    ELSE IF slug \in selected_slugs
         THEN IF slug \notin DOMAIN lc \/ lc[slug] \in {"spotlight", "retire"}
              THEN Put(lc, slug, "library")
              ELSE lc
         ELSE IF slug \in DOMAIN lc /\ lc[slug] \in {"spotlight", "library"}
              THEN Put(lc, slug, "retire")
              ELSE lc

\* line 333: the loop over ordered_slugs, from index i (1-based) on
RECURSIVE UpdateOrdered(_, _, _, _, _)
UpdateOrdered(lc, ordered_slugs, i, selected_slugs, spotlight_slug) ==
    IF i > Len(ordered_slugs)
    THEN lc
    ELSE UpdateOrdered(UpdateSlug(lc, ordered_slugs[i], selected_slugs, spotlight_slug),
                       ordered_slugs, i + 1, selected_slugs, spotlight_slug)

\* a tracker without the pass over the slugs that left the ordered list
RetireMissingSkipped(lc, ordered_slugs) == lc

\* a tracker that forgets the slugs that left the ordered list
RetireMissingDropsKeys(lc, ordered_slugs) ==
    [k \in (DOMAIN lc) \cap Range(ordered_slugs) |-> lc[k]]

\* lines 349-353: every known slug that is not in the ordered list retires
RetireMissing(lc, ordered_slugs) ==
    [k \in DOMAIN lc |-> IF k \notin Range(ordered_slugs) THEN "retire" ELSE lc[k]]

\* the whole tracker: the mapping as the call leaves it
UpdateCollectionLifecycles(lc, ord, sel, spot) ==
    RetireMissing(UpdateOrdered(lc, ord, 1, Range(sel), spot), ord)

----------------------------------------------------------------------------
(* generate_showdown_collections, from the evaluation of the datasets on *)

\* the title the dataset gives a slug (two slugs carry the same title)
TitleOf(slug) == IF slug = "b" THEN "Beta" ELSE "Alpha"

\* _build_slug_title_map: every dataset record with a slug, eligible or not
BuildSlugTitleMap(dataset_slugs) == [k \in dataset_slugs |-> TitleOf(k)]

\* stored_titles.update(slug_title_map)
DictUpdate(d, e) ==
    [k \in (DOMAIN d) \cup (DOMAIN e) |-> IF k \in DOMAIN e THEN e[k] ELSE d[k]]

\* a lifecycle phase that keeps working on the document read before the selector
StateReadBeforeSelector(file_before, file_after) == load_state(file_before)

\* line 134: the document the lifecycle phase works on, given the file as the
\* run found it and the file as the selector left it
StateForLifecycles(file_before, file_after) == load_state(file_after)

\* lines 135-141: {} unless the document holds an object under the key
LoadedLifecycles(state) ==
    IF HoldsDict(state, "collection_lifecycles")
    THEN state["collection_lifecycles"]
    ELSE EmptyDict

\* lines 152-158: the stored titles ({} unless an object), updated with the
\* titles of the dataset
MergedTitles(state, dataset_slugs) ==
    DictUpdate(IF HoldsDict(state, "collection_titles")
               THEN state["collection_titles"]
               ELSE EmptyDict,
               BuildSlugTitleMap(dataset_slugs))

\* the order in which the model walks the keys of a dict
KeyOrder == <<"a", "b", "c">>

\* lines 366-368: the titles on record of the retired slugs
RetiredTitles(lc, titles) ==
    LET keys == SelectSeq(KeyOrder, LAMBDA k :
                    /\ k \in DOMAIN titles
                    /\ k \in DOMAIN lc
                    /\ lc[k] = "retire"
                    /\ titles[k] # "")
    IN  [i \in 1..Len(keys) |-> titles[keys[i]]]

\* lines 371-373: the retired slugs without a title on record, by their slug
RetiredFallbacks(lc, titles) ==
    SelectSeq(KeyOrder, LAMBDA k :
        /\ k \in DOMAIN lc
        /\ lc[k] = "retire"
        /\ k \notin DOMAIN titles
        /\ k # "")

\* a name list without the second loop: a retired slug with no title on
\* record gets no name
GetRetiredCollectionNamesNoFallback(lc, titles) ==
    IF DOMAIN lc = {} THEN <<>>
    ELSE RetiredTitles(lc, titles)

\* _get_retired_collection_names
GetRetiredCollectionNames(lc, titles) ==
    IF DOMAIN lc = {} THEN <<>>
    ELSE RetiredTitles(lc, titles) \o RetiredFallbacks(lc, titles)

\* what a run that skips generation leaves: nothing returned, file untouched
SkippedRun(file, how) ==
    [outcome |-> how, selected |-> <<>>, spotlight |-> NoSpotlight, file |-> file,
     prev_lifecycles |-> EmptyDict, lifecycle_state |-> EmptyDict, io |-> <<>>,
     retired_names |-> <<>>]

\* a lifecycle phase that builds the saved document from the three keys it
\* knows and drops every other key of the loaded one
LifecyclePhaseKnownKeys(ord, under, file, sel) ==
    LET state == StateForLifecycles(file, sel.file)
        lc0   == LoadedLifecycles(state)
        lc1   == UpdateCollectionLifecycles(lc0, ord, sel.selected, sel.spotlight)
        st0   == [k \in (DOMAIN state) \cap {"window_position"} |-> state[k]]
        st1   == SetField(st0, "collection_lifecycles", lc1)
        st2   == SetField(st1, "collection_titles",
                          MergedTitles(state, Range(ord) \cup under))
    IN  [outcome |-> "generated",
         selected |-> sel.selected,
         spotlight |-> sel.spotlight,
         file |-> save_state(st2),
         prev_lifecycles |-> lc0,
         lifecycle_state |-> lc1,
         io |-> sel.io \o <<"load", "save">>,
         retired_names |-> GetRetiredCollectionNames(lc1, st2["collection_titles"])]

\* lines 134-175, after the selector returned sel: the lifecycle phase up to
\* the final save
LifecyclePhase(ord, under, file, sel) ==
    LET state == StateForLifecycles(file, sel.file)
        lc0   == LoadedLifecycles(state)
        lc1   == UpdateCollectionLifecycles(lc0, ord, sel.selected, sel.spotlight)
        st1   == SetField(state, "collection_lifecycles", lc1)
        st2   == SetField(st1, "collection_titles",
                          MergedTitles(state, Range(ord) \cup under))
    IN  [outcome |-> "generated",
         selected |-> sel.selected,
         spotlight |-> sel.spotlight,
         file |-> save_state(st2),
         prev_lifecycles |-> lc0,
         lifecycle_state |-> lc1,
         io |-> sel.io \o <<"load", "save">>,
         retired_names |-> GetRetiredCollectionNames(lc1, st2["collection_titles"])]

\* a run that ends with the exception the selector raised
RaisedRun(sel) ==
    [outcome |-> "raised", selected |-> <<>>, spotlight |-> NoSpotlight,
     file |-> sel.file, prev_lifecycles |-> EmptyDict,
     lifecycle_state |-> EmptyDict, io |-> sel.io, retired_names |-> <<>>]

\* a run whose lifecycle phase works on the file as the run found it, which
\* puts the position back
SelectThenTrackStale(ord, under, w, file) ==
    LET sel == SelectSlidingWindowAndSpotlight(ord, w, file)
    IN  IF sel.raised # "" THEN RaisedRun(sel)
        ELSE LifecyclePhase(ord, under, file, [sel EXCEPT !.file = file])

\* lines 128-175: the selector, then the lifecycle phase
SelectThenTrack(ord, under, w, file) ==
    LET sel == SelectSlidingWindowAndSpotlight(ord, w, file)
    IN  IF sel.raised # "" THEN RaisedRun(sel)
        ELSE LifecyclePhase(ord, under, file, sel)

\* a run whose threshold test comes after the bookkeeping: with no eligible
\* record the tracker and the title merge still run and the document is saved
GenerateShowdownCollectionsLateTest(ord, under, w, file) ==
    IF w <= 0 THEN SkippedRun(file, "window_not_positive")
    ELSE LET r == SelectThenTrack(ord, under, w, file)
         IN  IF Len(ord) = 0 /\ r.outcome = "generated"
             THEN [r EXCEPT !.outcome = "no_datasets_met_threshold"]
             ELSE r

\* a run without the test of lines 119-122: with a window of 0 or less the
\* selector returns nothing and the lifecycle phase still runs and saves
GenerateShowdownCollectionsNoWindowTest(ord, under, w, file) ==
    IF Len(ord) = 0 THEN SkippedRun(file, "no_datasets_met_threshold")
    ELSE SelectThenTrack(ord, under, w, file)

\* lines 110-175: ord is the ordered eligible list, under the dataset slugs that
\* are below the threshold, w the configured window
GenerateShowdownCollections(ord, under, w, file) ==
    IF Len(ord) = 0 THEN SkippedRun(file, "no_datasets_met_threshold")
    ELSE IF w <= 0 THEN SkippedRun(file, "window_not_positive")
    ELSE SelectThenTrack(ord, under, w, file)

----------------------------------------------------------------------------
(* The evaluator, _evaluate_datasets.  A dataset item is what json.load    *)
(* made of a cache file: summary is "mapping" or "missing" (null or any    *)
(* other type), entries_kind the JSON type of entries ("missing" for none  *)
(* or null), entries what iterating it yields (the characters of a string  *)
(* are entries that are no mappings).  An entry is [mapping, tmdb_id] with *)
(* tmdb_id 0 when the key is missing, null or 0.  published_at is the      *)
(* string, "" for none or null.                                            *)

\* str.strip() on the strings of the model
Strip(s) ==
    CASE s = "  " -> ""
      [] s = " Beta " -> "Beta"
      [] OTHER -> s

\* str() of a tmdb_id
Str(n) ==
    CASE n = 1 -> "1"
      [] n = 2 -> "2"
      [] n = 3 -> "3"
      [] OTHER -> "0"

\* lines 200-202: isinstance(summary, Mapping)
HasSummary(item) == item.summary = "mapping"

\* lines 207-209: isinstance(entries, Sequence) holds of a list and of a string
HasEntrySequence(item) == item.entries_kind \in {"list", "string"}

\* lines 211-215: the identifiers of the entries that are mappings with a
\* truthy tmdb_id, as strings
TmdbIds(item) ==
    LET with_id == SelectSeq(item.entries, LAMBDA e : e.mapping /\ e.tmdb_id # 0)
    IN  [i \in 1..Len(with_id) |-> Str(with_id[i].tmdb_id)]

\* plex.py count_available_tmdb_ids: one for every identifier in the index
CountAvailableTmdbIds(tmdb_ids, library_index) ==
    Len(SelectSeq(tmdb_ids, LAMBDA id : id \in library_index))

\* a total that counts every distinct identifier once
TotalEntriesDistinct(item) ==
    Cardinality({item.entries[i].tmdb_id : i \in
        {k \in 1..Len(item.entries) :
            item.entries[k].mapping /\ item.entries[k].tmdb_id # 0}})

\* line 218: the entries that are mappings
TotalEntries(item) == Len(SelectSeq(item.entries, LAMBDA e : e.mapping))

\* lines 204-205: slug and title of the record
SlugOfItem(item) == Strip(item.slug)
TitleOfItem(item) ==
    IF Strip(item.title) # "" THEN Strip(item.title) ELSE SlugOfItem(item)

\* lines 224-233: the record of an item
ShowdownAvailability(item, library_index) ==
    [slug |-> SlugOfItem(item),
     title |-> TitleOfItem(item),
     total_entries |-> TotalEntries(item),
     available_entries |-> CountAvailableTmdbIds(TmdbIds(item), library_index),
     published_at |-> item.published_at]

\* an evaluator that wants more matches than the threshold
MeetsThresholdStrictly(item, library_index, min_matches) ==
    /\ HasSummary(item)
    /\ HasEntrySequence(item)
    /\ CountAvailableTmdbIds(TmdbIds(item), library_index) > min_matches

\* lines 199-222: the item gets a record
MeetsThreshold(item, library_index, min_matches) ==
    /\ HasSummary(item)
    /\ HasEntrySequence(item)
    /\ ~(CountAvailableTmdbIds(TmdbIds(item), library_index) < min_matches)

\* _evaluate_datasets
EvaluateDatasets(items, library_index, min_matches) ==
    LET kept == SelectSeq(items, LAMBDA it : MeetsThreshold(it, library_index, min_matches))
    IN  [i \in 1..Len(kept) |-> ShowdownAvailability(kept[i], library_index)]

----------------------------------------------------------------------------
(* The sorter, _sort_availability, and its key.                            *)

\* datetime.fromisoformat on the strings of the model, after the "Z" of
\* lines 60-61 became "+00:00": kind "aware" with an offset, "naive" without,
\* "none" for the ValueError of a string that is no ISO date; t counts days
FromIsoFormat(value) ==
    CASE value = "2024-01-01T00:00:00Z" -> [kind |-> "aware", t |-> 1]
      [] value = "2024-06-01T00:00:00+00:00" -> [kind |-> "aware", t |-> 6]
      [] value = "2024-03-01" -> [kind |-> "naive", t |-> 3]
      [] OTHER -> [kind |-> "none", t |-> 0]

\* lines 56-65: the published_datetime property, None for no published_at
PublishedDatetime(record) ==
    IF record.published_at = "" THEN [kind |-> "none", t |-> 0]
    ELSE FromIsoFormat(record.published_at)

\* lines 250-252: None becomes datetime.min with tzinfo UTC, which is aware
PublishedKey(record) ==
    IF PublishedDatetime(record).kind = "none"
    THEN [kind |-> "aware", t |-> 0]
    ELSE PublishedDatetime(record)

\* lines 49-53: match_ratio as the fraction <<numerator, denominator>>
MatchRatio(record) ==
    IF record.total_entries <= 0 THEN <<0, 1>>
    ELSE <<record.available_entries, record.total_entries>>

RatioLess(x, y) == MatchRatio(x)[1] * MatchRatio(y)[2] < MatchRatio(y)[1] * MatchRatio(x)[2]
RatioEqual(x, y) == MatchRatio(x)[1] * MatchRatio(y)[2] = MatchRatio(y)[1] * MatchRatio(x)[2]

\* the titles of the model in the order of str.__lt__ (by code point)
CodePointOrder == <<"Alpha", "Alpha (1st ed.)", "Beta", "a", "b", "c", "d", "e">>

StrLess(s, t) ==
    \E i, j \in 1..Len(CodePointOrder) :
        /\ CodePointOrder[i] = s
        /\ CodePointOrder[j] = t
        /\ i < j

\* comparing the datetimes of the two keys raises TypeError: one is naive,
\* the other aware, and the tuple comparison gets to them
KeysIncomparable(x, y) ==
    /\ RatioEqual(x, y)
    /\ x.available_entries = y.available_entries
    /\ PublishedKey(x).kind # PublishedKey(y).kind

\* line 253: the tuples are equal
KeyEqual(x, y) ==
    /\ RatioEqual(x, y)
    /\ x.available_entries = y.available_entries
    /\ PublishedKey(x) = PublishedKey(y)
    /\ x.title = y.title

\* line 253: tuple comparison of the keys of two records
KeyLess(x, y) ==
    \/ RatioLess(x, y)
    \/ /\ RatioEqual(x, y)
       /\ \/ x.available_entries < y.available_entries
          \/ /\ x.available_entries = y.available_entries
             /\ \/ PublishedKey(x).t < PublishedKey(y).t
                \/ /\ PublishedKey(x).t = PublishedKey(y).t
                   /\ StrLess(x.title, y.title)

\* sorted() has to compare a naive with an aware datetime: some two records
\* of one ratio and count differ in that
SortRaises(items) ==
    \E i, j \in 1..Len(items) : KeysIncomparable(items[i], items[j])

\* sorted(items, key, reverse): stable, so records with equal keys keep their
\* input order in both directions
StableSort(items, reverse) ==
    LET Before(i, j) ==
            IF KeyEqual(items[i], items[j]) THEN i < j
            ELSE IF reverse THEN KeyLess(items[j], items[i])
            ELSE KeyLess(items[i], items[j])
        Rank(i) == Cardinality({j \in 1..Len(items) : j # i /\ Before(j, i)})
    IN  [pos \in 1..Len(items) |->
            items[CHOOSE i \in 1..Len(items) : Rank(i) = pos - 1]]

\* a call of sorted(): the list, or the TypeError of the comparison
Sorted(items, reverse) ==
    IF SortRaises(items)
    THEN [raised |-> "TypeError", items |-> <<>>]
    ELSE [raised |-> "", items |-> StableSort(items, reverse)]

\* a sorter that leaves the list as it is for a sort mode it does not know
SortAvailabilityUnknownAsNone(items, mode) ==
    IF mode = "matches_asc" THEN Sorted(items, FALSE)
    ELSE IF mode = "matches_desc" THEN Sorted(items, TRUE)
    ELSE [raised |-> "", items |-> items]

\* _sort_availability
SortAvailability(items, mode) ==
    IF mode = "matches_asc" THEN Sorted(items, FALSE)
    ELSE IF mode = "none" THEN [raised |-> "", items |-> items]
    ELSE Sorted(items, TRUE)

----------------------------------------------------------------------------
(* Selector-level specification: the selector applied to lists of up to    *)
(* MaxSelLen records and windows of up to MaxSelWindow, starting from any  *)
(* stored position (in range, out of range, negative or missing).          *)

SelLists == {SubSeq(Ranked, 1, n) : n \in 0..MaxSelLen}

SelDocs == {EmptyDict} \cup
           {[window_position |-> p] : p \in (-1)..(MaxSelLen + 1)}

SelFiles == {AbsentFile} \cup {ObjectFile(d) : d \in SelDocs}

InitSel ==
    /\ state_file \in SelFiles
    /\ ordered \in SelLists
    /\ window \in NegativeWindow..MaxSelWindow
    /\ below = {}
    /\ selected = <<>>
    /\ spotlight = NoSpotlight
    /\ prev_file = state_file
    /\ prev_lifecycles = EmptyDict
    /\ lifecycle_state = EmptyDict
    /\ outcome = "idle"
    /\ io = <<>>
    /\ trail = NoTrail
    /\ retired_names = <<>>
    /\ pending = EmptyDict
    /\ EvalUnused
    /\ SeriesUnused

\* one call of the selector on the current list, window size and file
SelectorCall ==
    LET r == SelectSlidingWindowAndSpotlight(ordered, window, state_file)
    IN  /\ selected' = r.selected
        /\ spotlight' = r.spotlight
        /\ state_file' = r.file
        /\ prev_file' = state_file
        /\ io' = r.io
        /\ outcome' = IF r.raised # "" THEN "raised"
                       ELSE IF r.io = <<>> THEN "empty" ELSE "selected"
        /\ UNCHANGED <<ordered, window, below, prev_lifecycles, lifecycle_state, trail,
                       retired_names, pending,
                       evalVars, seriesVars>>

NextSel == SelectorCall

SpecSel == InitSel /\ [][NextSel]_vars

----------------------------------------------------------------------------
(* Run-level specification: a sequence of runs of                          *)
(* generate_showdown_collections on one state file, which does not exist   *)
(* before the first run.  Dataset, availability and window size may differ *)
(* from run to run.                                                        *)

\* ordered lists of up to MaxLen records with pairwise distinct slugs
OrderedLists ==
    {q \in UNION {[1..n -> Slugs] : n \in 0..MaxLen} :
        \A i, j \in 1..Len(q) : i # j => q[i] # q[j]}

\* the series of consecutive completed runs over one unchanged ordered list,
\* counted from a run that used position 0: the list and the spotlights so far
NextTrail(r, ord, p) ==
    IF r.outcome = "window_not_positive" THEN trail
    ELSE IF r.outcome # "generated" THEN NoTrail
    ELSE IF p = 0 THEN [list |-> ord, spots |-> <<r.spotlight>>]
    ELSE IF trail.spots # <<>> /\ trail.list = ord
         THEN [list |-> ord, spots |-> Append(trail.spots, r.spotlight)]
    ELSE NoTrail

Init ==
    /\ state_file = AbsentFile
    /\ ordered = <<>>
    /\ window = 0
    /\ below = {}
    /\ selected = <<>>
    /\ spotlight = NoSpotlight
    /\ prev_file = AbsentFile
    /\ prev_lifecycles = EmptyDict
    /\ lifecycle_state = EmptyDict
    /\ outcome = "idle"
    /\ io = <<>>
    /\ trail = NoTrail
    /\ retired_names = <<>>
    /\ pending = EmptyDict
    /\ EvalUnused
    /\ SeriesUnused

\* one run of generate_showdown_collections, started when no run is under way
Run(ord, under, w) ==
    /\ outcome = "idle"
    /\ \E r \in {GenerateShowdownCollections(ord, under, w, state_file)} :
        /\ ordered' = ord
        /\ window' = w
        /\ below' = under
        /\ selected' = r.selected
        /\ spotlight' = r.spotlight
        /\ state_file' = r.file
        /\ prev_file' = state_file
        /\ prev_lifecycles' = r.prev_lifecycles
        /\ lifecycle_state' = r.lifecycle_state
        /\ outcome' = r.outcome
        /\ io' = r.io
        /\ trail' = NextTrail(r, ord,
                        CurrentSpotlightPosition(load_state(state_file), Len(ord)))
        /\ retired_names' = r.retired_names
        /\ UNCHANGED <<pending, evalVars, seriesVars>>

\* the run has returned: its inputs and results are gone, the file stays
RunOver ==
    /\ outcome # "idle"
    /\ ordered' = <<>>
    /\ window' = 0
    /\ below' = {}
    /\ selected' = <<>>
    /\ spotlight' = NoSpotlight
    /\ prev_file' = state_file
    /\ prev_lifecycles' = EmptyDict
    /\ lifecycle_state' = EmptyDict
    /\ outcome' = "idle"
    /\ io' = <<>>
    /\ retired_names' = <<>>
    /\ pending' = EmptyDict
    /\ UNCHANGED <<state_file, trail, evalVars>>

RunReturns ==
    /\ RunOver
    /\ UNCHANGED seriesVars

StartRun ==
    \E ord \in OrderedLists :
        \E under \in SUBSET (Slugs \ Range(ord)) :
            \E w \in NegativeWindow..MaxWindow :
                Run(ord, under, w)

Next == StartRun \/ RunReturns

Spec == Init /\ [][Next]_vars

----------------------------------------------------------------------------
(* Consecutive runs: the runs of the run-level specification over longer   *)
(* ordered lists, where the state keeps what the run before the last one   *)
(* was given and selected.                                                 *)

PairLists == {SubSeq(Ranked, 1, n) : n \in 0..MaxPairLen}

InitPair == Init

StartPair ==
    \E ord \in PairLists :
        \E w \in 0..MaxPairWindow :
            Run(ord, {}, w)

\* the run has returned and is now the run before the next one
PairReturns ==
    /\ RunOver
    /\ last_run' = [outcome |-> outcome, ordered |-> ordered,
                    window |-> window, selected |-> selected]
    /\ UNCHANGED procs

NextPair == StartPair \/ PairReturns

SpecPair == InitPair /\ [][NextPair]_vars

----------------------------------------------------------------------------
(* Tracker-level specification: _update_collection_lifecycles applied to   *)
(* any previous mapping (well-formed or not), any ordered list, any slice  *)
(* of it as the window and any of its records, or None, as the spotlight.  *)

\* a lifecycle value that is none of spotlight, library and retire
MalformedStatus == "archived"

LifecycleValues == {"spotlight", "library", "retire", MalformedStatus}

LifecycleMaps == UNION {[d -> LifecycleValues] : d \in SUBSET Slugs}

InitLife ==
    /\ state_file = AbsentFile
    /\ ordered \in OrderedLists
    /\ window = 0
    /\ below = {}
    /\ selected \in {SubSeq(ordered, i, j) : i \in 1..(Len(ordered) + 1),
                                             j \in 0..Len(ordered)}
    /\ spotlight \in Range(ordered) \cup {NoSpotlight}
    /\ prev_file = AbsentFile
    /\ lifecycle_state \in LifecycleMaps
    /\ prev_lifecycles = lifecycle_state
    /\ outcome = "idle"
    /\ io = <<>>
    /\ trail = NoTrail
    /\ retired_names = <<>>
    /\ pending = EmptyDict
    /\ EvalUnused
    /\ SeriesUnused

\* one call of the tracker on the in-memory mapping
LifecycleCall ==
    /\ lifecycle_state' =
           UpdateCollectionLifecycles(lifecycle_state, ordered, selected, spotlight)
    /\ prev_lifecycles' = lifecycle_state
    /\ outcome' = "tracked"
    /\ UNCHANGED <<state_file, ordered, window, below, selected, spotlight,
                   prev_file, io, trail, retired_names, pending,
                   evalVars, seriesVars>>

NextLife == LifecycleCall

SpecLife == InitLife /\ [][NextLife]_vars

----------------------------------------------------------------------------
(* Runs over any state file: the file the first run finds is whatever was  *)
(* left at state_path (by an earlier version, an editor or a failed        *)
(* write), the runs are those of Spec.                                     *)

\* what a found document holds under window_position: nothing, a position in
\* or out of range, or a value that is no integer
FoundPositions ==
    {EmptyDict,
     [k \in {"window_position"} |-> 0],
     [k \in {"window_position"} |-> 1],
     [k \in {"window_position"} |-> 5],
     [k \in {"window_position"} |-> -1],
     [k \in {MarkerOf("window_position")} |-> "null"]}

\* what it holds under collection_lifecycles
FoundLifecycles ==
    {EmptyDict,
     [k \in {MarkerOf("collection_lifecycles")} |-> "array"],
     [k \in {"collection_lifecycles"} |-> EmptyDict],
     [k \in {"collection_lifecycles"} |->
         [s \in {"a", "c"} |-> IF s = "a" THEN "library" ELSE "retire"]],
     [k \in {"collection_lifecycles"} |->
         [s \in {"a", "b"} |-> IF s = "a" THEN "spotlight" ELSE "library"]],
     [k \in {"collection_lifecycles"} |-> [s \in {"b"} |-> MalformedStatus]]}

\* what it holds under collection_titles
FoundTitles ==
    {EmptyDict,
     [k \in {MarkerOf("collection_titles")} |-> "string"],
     [k \in {"collection_titles"} |-> [s \in {"a"} |-> "Alpha (1st ed.)"]]}

\* the union of dicts with disjoint keys
Merge(d, e) ==
    [k \in (DOMAIN d) \cup (DOMAIN e) |-> IF k \in DOMAIN d THEN d[k] ELSE e[k]]

\* the keys it holds that the program does not know
FoundExtras ==
    {EmptyDict,
     [k \in {"schema_version"} |-> 2]}

FoundFiles ==
    {ObjectFile(Merge(Merge(p, x), Merge(l, t))) :
        p \in FoundPositions, l \in FoundLifecycles, t \in FoundTitles,
        x \in FoundExtras}
    \cup {AbsentFile, OtherFile("unreadable"), OtherFile("invalid_json"),
          OtherFile("non_object"), OtherFile("undecodable")}

InitDocs ==
    /\ state_file \in FoundFiles
    /\ ordered = <<>>
    /\ window = 0
    /\ below = {}
    /\ selected = <<>>
    /\ spotlight = NoSpotlight
    /\ prev_file = state_file
    /\ prev_lifecycles = EmptyDict
    /\ lifecycle_state = EmptyDict
    /\ outcome = "idle"
    /\ io = <<>>
    /\ trail = NoTrail
    /\ retired_names = <<>>
    /\ pending = EmptyDict
    /\ EvalUnused
    /\ SeriesUnused

NextDocs == StartRun \/ RunReturns

SpecDocs == InitDocs /\ [][NextDocs]_vars

----------------------------------------------------------------------------
(* Runs taken step by step, each of which the process may not survive:     *)
(* outcome is the point the run has reached, and save_state is the two     *)
(* steps it is in storage.py, open(path, "w") and json.dump.               *)

\* the points of a run at which the process can be interrupted
RunPoints ==
    {"at_selector", "selector_writing", "at_lifecycles", "at_final_save",
     "final_writing"}

\* lines 110-122: the run starts; the two early returns end it at once
StepBegin(ord, under, w) ==
    /\ outcome = "idle"
    /\ ordered' = ord
    /\ window' = w
    /\ below' = under
    /\ prev_file' = state_file
    /\ outcome' = IF Len(ord) = 0 THEN "no_datasets_met_threshold"
                   ELSE IF w <= 0 THEN "window_not_positive"
                   ELSE "at_selector"
    /\ UNCHANGED <<state_file, selected, spotlight, prev_lifecycles,
                   lifecycle_state, io, trail, retired_names, pending,
                   evalVars, seriesVars>>

\* lines 268-304 and storage.py line 107: the selector loads the document,
\* computes the window and opens the file to write the advanced position
StepSelector ==
    /\ outcome = "at_selector"
    /\ \E r \in {SelectSlidingWindowAndSpotlight(ordered, window, state_file)} :
        IF r.raised # ""
        THEN /\ outcome' = "raised"
             /\ io' = r.io
             /\ UNCHANGED <<state_file, selected, spotlight, pending>>
        ELSE /\ outcome' = "selector_writing"
             /\ selected' = r.selected
             /\ spotlight' = r.spotlight
             /\ pending' = r.file.data
             /\ state_file' = TruncatedFile
             /\ io' = <<"load", "truncate">>
    /\ UNCHANGED <<ordered, window, below, prev_file, prev_lifecycles,
                   lifecycle_state, trail, retired_names,
                   evalVars, seriesVars>>

\* storage.py lines 108-113: json.dump has written the document
StepSelectorSaved ==
    /\ outcome = "selector_writing"
    /\ state_file' = save_state(pending)
    /\ pending' = EmptyDict
    /\ io' = Append(io, "save")
    /\ outcome' = "at_lifecycles"
    /\ UNCHANGED <<ordered, window, below, selected, spotlight, prev_file,
                   prev_lifecycles, lifecycle_state, trail, retired_names,
                   evalVars, seriesVars>>

\* lines 134-163: the document is loaded again and updated in memory
StepLifecycles ==
    /\ outcome = "at_lifecycles"
    /\ \E r \in {LifecyclePhase(ordered, below, prev_file,
                    [selected |-> selected, spotlight |-> spotlight,
                     file |-> state_file, io |-> io, raised |-> ""])} :
        /\ prev_lifecycles' = r.prev_lifecycles
        /\ lifecycle_state' = r.lifecycle_state
        /\ retired_names' = r.retired_names
        /\ pending' = r.file.data
    /\ io' = Append(io, "load")
    /\ outcome' = "at_final_save"
    /\ UNCHANGED <<state_file, ordered, window, below, selected, spotlight,
                   prev_file, trail,
                   evalVars, seriesVars>>

\* line 175 and storage.py line 107: the file is opened for the final save
StepFinalOpen ==
    /\ outcome = "at_final_save"
    /\ state_file' = TruncatedFile
    /\ io' = Append(io, "truncate")
    /\ outcome' = "final_writing"
    /\ UNCHANGED <<ordered, window, below, selected, spotlight, prev_file,
                   prev_lifecycles, lifecycle_state, trail, retired_names,
                   pending,
                   evalVars, seriesVars>>

\* storage.py lines 108-113: the final document is written
StepFinalSaved ==
    /\ outcome = "final_writing"
    /\ state_file' = save_state(pending)
    /\ pending' = EmptyDict
    /\ io' = Append(io, "save")
    /\ outcome' = "generated"
    /\ UNCHANGED <<ordered, window, below, selected, spotlight, prev_file,
                   prev_lifecycles, lifecycle_state, trail, retired_names,
                   evalVars, seriesVars>>

\* the process is interrupted (killed, power loss, an exception of a later
\* line): the file stays as the last file operation left it
Crash ==
    /\ outcome \in RunPoints
    /\ outcome' = "crashed"
    /\ io' = Append(io, "crash")
    /\ UNCHANGED <<state_file, ordered, window, below, selected, spotlight,
                   prev_file, prev_lifecycles, lifecycle_state, trail,
                   retired_names, pending,
                   evalVars, seriesVars>>

\* the run is over, by a return, an exception or an interruption
StepReturns ==
    /\ outcome \notin RunPoints
    /\ RunReturns

StartSteps ==
    \E ord \in OrderedLists :
        \E under \in SUBSET (Slugs \ Range(ord)) :
            \E w \in NegativeWindow..MaxWindow :
                StepBegin(ord, under, w)

NextSteps ==
    \/ StartSteps
    \/ StepSelector
    \/ StepSelectorSaved
    \/ StepLifecycles
    \/ StepFinalOpen
    \/ StepFinalSaved
    \/ Crash
    \/ StepReturns

SpecSteps == Init /\ [][NextSteps]_vars

----------------------------------------------------------------------------
(* Evaluator-level specification: _evaluate_datasets applied to any short  *)
(* list of dataset items, well-formed or not, any library index and any    *)
(* threshold from 0 up.                                                    *)

MaxItems == 2

MaxThreshold == 2

\* entries: mappings with tmdb_id 1, 2, 3, a mapping without one, and a
\* value that is no mapping
E1 == [mapping |-> TRUE, tmdb_id |-> 1]
E2 == [mapping |-> TRUE, tmdb_id |-> 2]
E3 == [mapping |-> TRUE, tmdb_id |-> 3]
ENoId == [mapping |-> TRUE, tmdb_id |-> 0]
ENoMapping == [mapping |-> FALSE, tmdb_id |-> 0]

\* a well-formed item
Item(slug, title, entries, published_at) ==
    [summary |-> "mapping", slug |-> slug, title |-> title,
     entries_kind |-> "list", entries |-> entries, published_at |-> published_at]

ItemA == Item("a", "Alpha", <<E1, E2>>, "2024-01-01T00:00:00Z")
ItemB == Item("b", " Beta ", <<E1, E1, E3, ENoMapping, ENoId>>, "")
ItemC == Item("c", "Alpha", <<E1, E2>>, "2024-01-01T00:00:00Z")

\* malformed items: a blank slug, no summary, no entries, entries that are a
\* string, entries that are an object
ItemBlankSlug == Item("  ", "Alpha", <<E1, E2>>, "")
ItemNoSummary == [ItemA EXCEPT !.summary = "missing"]
ItemNoEntries == [ItemA EXCEPT !.entries_kind = "missing", !.entries = <<>>]
ItemStringEntries ==
    [ItemA EXCEPT !.entries_kind = "string",
                  !.entries = <<ENoMapping, ENoMapping, ENoMapping>>]
ItemObjectEntries == [ItemA EXCEPT !.entries_kind = "object", !.entries = <<>>]

Items ==
    {ItemA, ItemB, ItemC, ItemBlankSlug, ItemNoSummary, ItemNoEntries,
     ItemStringEntries, ItemObjectEntries}

\* the sequences over a set of length up to n
SeqsUpTo(S, n) == UNION {[1..k -> S] : k \in 0..n}

\* the state outside the evaluator and the sorter, which they do not touch
RotationUnused ==
    /\ state_file = AbsentFile
    /\ ordered = <<>>
    /\ window = 0
    /\ below = {}
    /\ selected = <<>>
    /\ spotlight = NoSpotlight
    /\ prev_file = AbsentFile
    /\ prev_lifecycles = EmptyDict
    /\ lifecycle_state = EmptyDict
    /\ io = <<>>
    /\ trail = NoTrail
    /\ retired_names = <<>>
    /\ pending = EmptyDict

rotationVars ==
    <<state_file, ordered, window, below, selected, spotlight, prev_file,
      prev_lifecycles, lifecycle_state, io, trail, retired_names, pending>>

InitEval ==
    /\ RotationUnused
    /\ SeriesUnused
    /\ outcome = "idle"
    /\ datasets \in SeqsUpTo(Items, MaxItems)
    /\ tmdb_index \in SUBSET {"1", "2", "3"}
    /\ threshold \in 0..MaxThreshold
    /\ sort_mode = "none"
    /\ availability = <<>>
    /\ sorted = <<>>

\* one call of the evaluator
EvaluateCall ==
    /\ outcome = "idle"
    /\ availability' = EvaluateDatasets(datasets, tmdb_index, threshold)
    /\ outcome' = "evaluated"
    /\ UNCHANGED <<rotationVars, seriesVars, datasets, tmdb_index, threshold, sort_mode, sorted>>

NextEval == EvaluateCall

SpecEval == InitEval /\ [][NextEval]_vars

----------------------------------------------------------------------------
(* Sorter-level specification: _sort_availability applied to any short     *)
(* list of records with pairwise distinct slugs and any sort mode.         *)

MaxSortLen == 3

Record(slug, title, total, available, published_at) ==
    [slug |-> slug, title |-> title, total_entries |-> total,
     available_entries |-> available, published_at |-> published_at]

\* records of one ratio and count that differ in date or title or in nothing
\* but the slug, and records of other ratios and counts
SortRecords ==
    {Record("a", "Alpha", 4, 2, "2024-01-01T00:00:00Z"),
     Record("c", "Alpha", 4, 2, "2024-01-01T00:00:00Z"),
     Record("b", "Beta", 4, 2, ""),
     Record("d", "Beta", 2, 1, "2024-06-01T00:00:00+00:00"),
     Record("e", "Alpha", 0, 0, "last week"),
     Record("f", "Beta", 3, 3, "2024-03-01"),
     Record("g", "Beta", 4, 2, "2024-03-01"),
     Record("h", "Alpha", 4, 2, "2024-06-01T00:00:00+00:00")}

SortModes == {"matches_desc", "matches_asc", "none", "title"}

\* lists of records with pairwise distinct slugs
RecordLists ==
    {l \in SeqsUpTo(SortRecords, MaxSortLen) :
        \A i, j \in 1..Len(l) : l[i].slug = l[j].slug => i = j}

InitSort ==
    /\ RotationUnused
    /\ SeriesUnused
    /\ outcome = "idle"
    /\ datasets = <<>>
    /\ tmdb_index = {}
    /\ threshold = 0
    /\ sort_mode \in SortModes
    /\ availability \in RecordLists
    /\ sorted = <<>>

\* one call of the sorter
SortCall ==
    /\ outcome = "idle"
    /\ \E r \in {SortAvailability(availability, sort_mode)} :
        /\ sorted' = r.items
        /\ outcome' = IF r.raised # "" THEN "raised" ELSE "sorted"
    /\ UNCHANGED <<rotationVars, seriesVars, datasets, tmdb_index, threshold, sort_mode,
                   availability>>

NextSort == SortCall

SpecSort == InitSort /\ [][NextSort]_vars

----------------------------------------------------------------------------
(* The whole pipeline of generate_showdown_collections, lines 110-175:     *)
(* evaluator, sorter, selector and tracker.  The one place where the order *)
(* of the steps is not fixed by the code is the loop of lines 350-353 over *)
(* a set of str, whose iteration order changes with the hash seed of the   *)
(* process: the model visits the set in any order.                         *)

\* the orders in which a set can be iterated
Visits(S) ==
    {v \in [1..Cardinality(S) -> S] :
        \A i, j \in 1..Cardinality(S) : v[i] = v[j] => i = j}

\* a loop that stops after the first slug it visits
RECURSIVE RetireVisitedFirstOnly(_, _, _)
RetireVisitedFirstOnly(lc, visit, i) ==
    IF i > Len(visit) \/ i > 1
    THEN lc
    ELSE RetireVisitedFirstOnly(Put(lc, visit[i], "retire"), visit, i + 1)

\* lines 352-353: the loop over missing_slugs in the order visit, from i on
RECURSIVE RetireVisited(_, _, _)
RetireVisited(lc, visit, i) ==
    IF i > Len(visit)
    THEN lc
    ELSE RetireVisited(Put(lc, visit[i], "retire"), visit, i + 1)

\* lines 350-351: known_slugs - set(ordered_slugs)
MissingSlugs(lc, ordered_slugs) == (DOMAIN lc) \ Range(ordered_slugs)

\* lines 134-175 with the set of line 351 iterated in the order visit
LifecyclePhaseVisiting(ord, under, file, sel, visit) ==
    LET state == StateForLifecycles(file, sel.file)
        lc0   == LoadedLifecycles(state)
        lc1   == RetireVisited(UpdateOrdered(lc0, ord, 1, Range(sel.selected),
                                             sel.spotlight),
                               visit, 1)
        st1   == SetField(state, "collection_lifecycles", lc1)
        st2   == SetField(st1, "collection_titles",
                          MergedTitles(state, Range(ord) \cup under))
    IN  [outcome |-> "generated",
         selected |-> sel.selected,
         spotlight |-> sel.spotlight,
         file |-> save_state(st2),
         prev_lifecycles |-> lc0,
         lifecycle_state |-> lc1,
         io |-> sel.io \o <<"load", "save">>,
         retired_names |-> GetRetiredCollectionNames(lc1, st2["collection_titles"])]

\* the slugs of a list of records
SlugsOf(records) == [i \in 1..Len(records) |-> records[i].slug]

\* lines 308-320: the slugs _build_slug_title_map finds in the dataset
TitledSlugs(items) ==
    {SlugOfItem(items[i]) : i \in {j \in 1..Len(items) : HasSummary(items[j])}} \ {""}

\* lines 128-175 from the ordered records on: every result the run can have
SelectThenTrackResults(ord, under, w, file) ==
    LET sel == SelectSlidingWindowAndSpotlight(ord, w, file)
    IN  IF sel.raised # "" THEN {RaisedRun(sel)}
        ELSE {LifecyclePhaseVisiting(ord, under, file, sel, visit) :
                 visit \in Visits(MissingSlugs(
                     LoadedLifecycles(StateForLifecycles(file, sel.file)), ord))}

\* lines 110-175: every result the run can have, with the records the
\* evaluator and the sorter produced
PipelineResults(items, library_index, min_matches, mode, w, file) ==
    LET avail == EvaluateDatasets(items, library_index, min_matches)
        srt   == SortAvailability(avail, mode)
        ord   == SlugsOf(srt.items)
        With(r, s) == [run |-> r, availability |-> avail, sorted |-> s]
    IN  IF Len(avail) = 0
        THEN {With(SkippedRun(file, "no_datasets_met_threshold"), <<>>)}
        ELSE IF srt.raised # ""
        THEN {With([SkippedRun(file, "raised") EXCEPT !.outcome = "raised"], <<>>)}
        ELSE IF w <= 0
        THEN {With(SkippedRun(file, "window_not_positive"), srt.items)}
        ELSE {With(r, srt.items) :
                 r \in SelectThenTrackResults(ord, TitledSlugs(items) \ Range(ord),
                                              w, file)}

----------------------------------------------------------------------------
(* Pipeline-level specification: one run of the pipeline on a dataset, an  *)
(* index, a threshold, a sort mode, a window and a state file, and then a  *)
(* second run started from the same inputs and the same state file.        *)

\* datasets of well-formed items with pairwise distinct slugs
DatasetLists ==
    {l \in SeqsUpTo({ItemA, ItemB, ItemC}, 3) :
        \A i, j \in 1..Len(l) : l[i].slug = l[j].slug => i = j}

\* the state file before the two runs: none, or one with the three slugs in it
PipeFiles ==
    {AbsentFile,
     ObjectFile([k \in {"window_position", "collection_lifecycles",
                        "collection_titles"} |->
         CASE k = "window_position" -> 1
           [] k = "collection_lifecycles" ->
                  [s \in Slugs |-> IF s = "a" THEN "spotlight" ELSE "library"]
           [] k = "collection_titles" -> [s \in Slugs |-> TitleOf(s)]])}

InitPipe ==
    /\ state_file \in PipeFiles
    /\ prev_file = state_file
    /\ ordered = <<>>
    /\ window \in NegativeWindow..MaxWindow
    /\ below = {}
    /\ selected = <<>>
    /\ spotlight = NoSpotlight
    /\ prev_lifecycles = EmptyDict
    /\ lifecycle_state = EmptyDict
    /\ outcome = "idle"
    /\ io = <<>>
    /\ trail = NoTrail
    /\ retired_names = <<>>
    /\ pending = EmptyDict
    /\ datasets \in DatasetLists
    /\ tmdb_index \in SUBSET {"1", "2", "3"}
    /\ threshold \in 0..MaxThreshold
    /\ sort_mode \in SortModes
    /\ availability = <<>>
    /\ sorted = <<>>
    /\ SeriesUnused

\* the outcome of a second run
Again(how) ==
    CASE how = "generated" -> "generated again"
      [] how = "raised" -> "raised again"
      [] how = "no_datasets_met_threshold" -> "no_datasets_met_threshold again"
      [] how = "window_not_positive" -> "window_not_positive again"
      [] OTHER -> how

\* a run of the pipeline on the inputs of the state and the file as it was in
\* prev_file
PipelineFrom(second) ==
    \E p \in PipelineResults(datasets, tmdb_index, threshold, sort_mode, window,
                             prev_file) :
        /\ availability' = p.availability
        /\ sorted' = p.sorted
        /\ ordered' = SlugsOf(p.sorted)
        /\ below' = TitledSlugs(datasets) \ Range(SlugsOf(p.sorted))
        /\ selected' = p.run.selected
        /\ spotlight' = p.run.spotlight
        /\ state_file' = p.run.file
        /\ prev_lifecycles' = p.run.prev_lifecycles
        /\ lifecycle_state' = p.run.lifecycle_state
        /\ io' = p.run.io
        /\ retired_names' = p.run.retired_names
        /\ outcome' = IF second THEN Again(p.run.outcome) ELSE p.run.outcome
        /\ UNCHANGED <<prev_file, window, trail, pending, datasets, tmdb_index,
                       threshold, sort_mode, seriesVars>>

\* the first run
PipelineRun ==
    /\ outcome = "idle"
    /\ PipelineFrom(FALSE)

\* the second run, from the same inputs and the same state file
PipelineRerun ==
    /\ outcome \in {"generated", "raised", "no_datasets_met_threshold",
                    "window_not_positive"}
    /\ PipelineFrom(TRUE)

NextPipe == PipelineRun \/ PipelineRerun

SpecPipe == InitPipe /\ [][NextPipe]_vars

----------------------------------------------------------------------------
(* Claims about the selector, stated on the last call: its inputs are      *)
(* ordered, window and prev_file, its results selected, spotlight and the  *)
(* document in state_file.                                                 *)

\* the document in the file before the last call ({} when there was none)
PrevDoc == IF prev_file.kind = "object" THEN prev_file.data ELSE EmptyDict

\* the position the claims call p: the stored window_position, or 0 when it
\* is missing or outside [0, N-1]
UsedPosition ==
    IF /\ "window_position" \in DOMAIN PrevDoc
       /\ PrevDoc["window_position"] \in 0..(Len(ordered) - 1)
    THEN PrevDoc["window_position"]
    ELSE 0

SelectorRan == outcome = "selected"

\* C1: for N >= 1, W >= 1 and any stored position the window has exactly
\* min(W, N) elements and is a contiguous slice of the ordered list.
C1_WindowSize ==
    SelectorRan =>
        /\ Len(selected) = Min(window, Len(ordered))
        /\ \E s \in 0..Len(ordered) :
              selected = SubSeq(ordered, s + 1, s + Len(selected))

\* a full window taken from a list longer than W with an out-of-range position
C1_Witness ==
    /\ SelectorRan
    /\ Len(ordered) > window
    /\ "window_position" \in DOMAIN PrevDoc
    /\ PrevDoc["window_position"] >= Len(ordered)
    /\ Len(selected) = window

\* C2: on a non-empty list the spotlight, when there is one, is an element
\* of the window returned by the same call.
C2_SpotlightInWindow ==
    (SelectorRan /\ spotlight # NoSpotlight) => spotlight \in Range(selected)

\* a spotlight that is in the window without being its first element
C2_Witness ==
    /\ SelectorRan
    /\ spotlight # NoSpotlight
    /\ Len(selected) >= 3
    /\ spotlight = selected[3]

\* C3: on a non-empty list with W >= 1 the spotlight is never None: it is
\* ordered[p] for the position p after the range reset.
C3_SpotlightIsOrderedAtP ==
    SelectorRan =>
        /\ spotlight # NoSpotlight
        /\ spotlight = ordered[UsedPosition + 1]

\* a list shorter than W whose spotlight is its last record
C3_Witness ==
    /\ SelectorRan
    /\ Len(ordered) < window
    /\ UsedPosition = Len(ordered) - 1
    /\ UsedPosition >= 2
    /\ spotlight = ordered[Len(ordered)]

\* C5: every call on a non-empty list with W >= 1 stores
\* window_position = (p + 1) mod N, which lies in [0, N-1] whatever W is.
C5_StoredPosition ==
    SelectorRan =>
        /\ state_file.kind = "object"
        /\ "window_position" \in DOMAIN state_file.data
        /\ state_file.data["window_position"] = (UsedPosition + 1) % Len(ordered)
        /\ state_file.data["window_position"] \in 0..(Len(ordered) - 1)

\* the wrap: the last index of a list of three or more was used, 0 is stored
C5_Witness ==
    /\ SelectorRan
    /\ Len(ordered) >= 3
    /\ UsedPosition = Len(ordered) - 1
    /\ state_file.data["window_position"] = 0

\* C6: the window is ordered[s:e] with offset = min(2, W // 2),
\* s0 = max(0, p - offset), e = min(s0 + W, N), and s = max(0, e - W) when
\* e - s0 < W and s0 > 0, else s = s0; near the end of a list of at least W
\* records it is the last W records, not a truncated window.
C6_WindowBounds ==
    SelectorRan =>
        LET n      == Len(ordered)
            offset == IF window \div 2 < 2 THEN window \div 2 ELSE 2
            s0     == IF UsedPosition - offset > 0 THEN UsedPosition - offset ELSE 0
            e      == IF s0 + window < n THEN s0 + window ELSE n
            s      == IF e - s0 < window /\ s0 > 0
                      THEN (IF e - window > 0 THEN e - window ELSE 0)
                      ELSE s0
        IN  /\ selected = [i \in 1..(e - s) |-> ordered[s + i]]
            /\ (n >= window /\ s0 + window > n) =>
                   selected = [i \in 1..window |-> ordered[n - window + i]]

\* a window of 5 slid left at the end of a longer list
C6_Witness ==
    /\ SelectorRan
    /\ window = 5
    /\ Len(ordered) > window
    /\ UsedPosition = Len(ordered) - 1
    /\ selected = SubSeq(ordered, Len(ordered) - 4, Len(ordered))

----------------------------------------------------------------------------
(* Claims about the tracker and about whole runs.  The status of a slug in *)
(* a mapping is its value, or "unknown" when the mapping has no entry.     *)

StatusIn(lc, slug) == IF slug \in DOMAIN lc THEN lc[slug] ELSE "unknown"

\* the lifecycle mapping of a document ({} when it has none)
LifecyclesOfDoc(doc) ==
    IF "collection_lifecycles" \in DOMAIN doc THEN doc["collection_lifecycles"]
    ELSE EmptyDict

\* the status a slug had on disk before the last run, and has on disk now
StatusBefore(slug) == StatusIn(LifecyclesOfDoc(PrevDoc), slug)
StatusNow(slug) ==
    StatusIn(LifecyclesOfDoc(IF state_file.kind = "object" THEN state_file.data
                             ELSE EmptyDict), slug)

\* the window_position on disk now (-1 when the document has none)
PositionNow ==
    IF state_file.kind = "object" /\ "window_position" \in DOMAIN state_file.data
    THEN state_file.data["window_position"]
    ELSE -1

\* C4: with an unchanged ordered list of N records and a start at position 0,
\* consecutive runs spotlight ordered[0], ordered[1], ... in that order, each
\* record once, and after the N-th run the stored position is 0 again.
C4_RotationVisitsEachOnce ==
    trail.spots # <<>> =>
        LET n == Len(trail.list)
            k == Len(trail.spots)
        IN  /\ k <= n
            /\ \A i \in 1..k : trail.spots[i] = trail.list[i]
            /\ PositionNow = k % n

\* three runs over an unchanged list of three: all three spotlighted, position 0
C4_Witness ==
    /\ Len(trail.list) = 3
    /\ Len(trail.spots) = 3
    /\ outcome = "generated"
    /\ PositionNow = 0

\* C7: for every slug of the ordered list the tracker yields spotlight for the
\* spotlight; library for a slug in the window that was spotlight, library,
\* retire or unknown; retire for a slug outside the window that was spotlight
\* or library; and no change for one outside the window that was unknown or
\* retire.
C7_TransitionTable ==
    outcome = "tracked" =>
        \A slug \in Range(ordered) :
            LET was == StatusIn(prev_lifecycles, slug)
                now == StatusIn(lifecycle_state, slug)
            IN  /\ slug = spotlight => now = "spotlight"
                /\ (slug # spotlight /\ slug \in Range(selected)
                      /\ was \in {"spotlight", "library", "retire", "unknown"})
                    => now = "library"
                /\ (slug # spotlight /\ slug \notin Range(selected)
                      /\ was \in {"spotlight", "library"})
                    => now = "retire"
                /\ (slug # spotlight /\ slug \notin Range(selected)
                      /\ was \in {"unknown", "retire"})
                    => now = was

\* one call that brings a retired slug back as library, retires a former
\* spotlight outside the window and leaves an unknown slug unknown
C7_Witness ==
    /\ outcome = "tracked"
    /\ \E x, y, z \in Range(ordered) :
        /\ x # spotlight /\ x \in Range(selected)
        /\ StatusIn(prev_lifecycles, x) = "retire"
        /\ StatusIn(lifecycle_state, x) = "library"
        /\ y \notin Range(selected)
        /\ StatusIn(prev_lifecycles, y) = "spotlight"
        /\ StatusIn(lifecycle_state, y) = "retire"
        /\ z # spotlight /\ z \notin Range(selected)
        /\ StatusIn(prev_lifecycles, z) = "unknown"
        /\ StatusIn(lifecycle_state, z) = "unknown"

\* slug was spotlight or library on disk before the run and is not in the
\* ordered list of the run
LeftTheOrderedList(slug) ==
    /\ StatusBefore(slug) \in {"spotlight", "library"}
    /\ slug \notin Range(ordered)

\* C8 as claimed: such a slug is retire on disk after every run (here: every
\* run with a positive window size), a run in which no record meets the
\* threshold included.
C8_RetiredAfterEveryRun ==
    (outcome \in {"generated", "no_datasets_met_threshold"} /\ window >= 1) =>
        \A slug \in Slugs : LeftTheOrderedList(slug) => StatusNow(slug) = "retire"

\* C8 as amended: such a slug is retire on disk after every run in which at
\* least one record meets the threshold and the window size is positive; a
\* run that returns early for lack of an eligible record leaves it as it was.
C8_RetiredAfterGeneration ==
    /\ outcome = "generated" =>
         \A slug \in Slugs : LeftTheOrderedList(slug) => StatusNow(slug) = "retire"
    /\ outcome = "no_datasets_met_threshold" =>
         \A slug \in Slugs : StatusNow(slug) = StatusBefore(slug)

\* a run over a non-empty list that retires a former spotlight no longer listed
C8_Witness ==
    /\ outcome = "generated"
    /\ \E slug \in Slugs :
        /\ StatusBefore(slug) = "spotlight"
        /\ slug \notin Range(ordered)
        /\ StatusNow(slug) = "retire"

\* C9: a run in which no record meets the threshold leaves the state document
\* as it was, returns no window and no spotlight and does not fail; the
\* selector called with an empty list does not access the state file.
C9_EmptyEligibleSetIsNoOp ==
    /\ outcome = "no_datasets_met_threshold" =>
         /\ state_file = prev_file
         /\ selected = <<>>
         /\ spotlight = NoSpotlight
         /\ io = <<>>
    /\ \A w \in 0..MaxWindow :
         LET r == SelectSlidingWindowAndSpotlight(<<>>, w, state_file)
         IN  /\ r.file = state_file
             /\ r.io = <<>>
             /\ r.selected = <<>>
             /\ r.spotlight = NoSpotlight

\* a run with no eligible record on a document that holds a spotlight, with a
\* dataset slug whose title is not on record yet
C9_Witness ==
    /\ outcome = "no_datasets_met_threshold"
    /\ prev_file.kind = "object"
    /\ \E slug \in Slugs : StatusNow(slug) = "spotlight"
    /\ \E slug \in below :
         slug \notin DOMAIN Get(state_file.data, "collection_titles", EmptyDict)

\* C10: a slug that is retire becomes library or spotlight only in a run in
\* which it is inside the selected window; outside the window, or absent from
\* the ordered list, it stays retire.
C10_RetireIsSticky ==
    outcome # "idle" =>
        \A slug \in Slugs :
            StatusBefore(slug) = "retire" =>
                /\ StatusNow(slug) \in {"library", "spotlight"}
                     => slug \in Range(selected)
                /\ slug \notin Range(selected) => StatusNow(slug) = "retire"

\* a run with a retired slug that comes back as spotlight and another retired
\* slug that is listed outside the window and stays retired
C10_Witness ==
    /\ outcome = "generated"
    /\ \E x, y \in Slugs :
        /\ StatusBefore(x) = "retire" /\ StatusNow(x) = "spotlight"
        /\ x \in Range(selected)
        /\ StatusBefore(y) = "retire" /\ StatusNow(y) = "retire"
        /\ y \in Range(ordered) /\ y \notin Range(selected)

\* C11: per slug the status moves only along unknown->library,
\* unknown->spotlight and the edges among spotlight, library and retire: a
\* slug without an entry never enters the map as retire, an entry is never
\* dropped, and an entry is created only for a slug in the selected window.
C11_LifecycleEdges ==
    outcome # "idle" =>
        \A slug \in Slugs :
            LET was == StatusBefore(slug)
                now == StatusNow(slug)
            IN  /\ now \in {"unknown", "spotlight", "library", "retire"}
                /\ was = "unknown" => now \in {"unknown", "library", "spotlight"}
                /\ was # "unknown" => now # "unknown"
                /\ (was = "unknown" /\ now # "unknown") => slug \in Range(selected)

\* a run that creates the entry of its spotlight and leaves without an entry
\* a listed slug outside the window and a slug below the threshold
C11_Witness ==
    /\ outcome = "generated"
    /\ \E x, y, z \in Slugs :
        /\ StatusBefore(x) = "unknown" /\ StatusNow(x) = "spotlight"
        /\ y \in Range(ordered) /\ y \notin Range(selected)
        /\ StatusBefore(y) = "unknown" /\ StatusNow(y) = "unknown"
        /\ z \in below
        /\ StatusBefore(z) = "unknown" /\ StatusNow(z) = "unknown"

\* C13: in one run the state file is read exactly once, before the selection,
\* and written exactly once, after the lifecycle update.
C13_OneReadOneWrite ==
    outcome = "generated" => io = <<"load", "save">>

\* C16: a stored window_position that is missing, negative or not below the
\* length of the ordered list counts as 0: the spotlight is ordered[0] and the
\* stored next position is 1 mod N.
C16_OutOfRangeResetsToZero ==
    (/\ SelectorRan
     /\ \/ "window_position" \notin DOMAIN PrevDoc
        \/ PrevDoc["window_position"] < 0
        \/ PrevDoc["window_position"] >= Len(ordered))
    => /\ spotlight = ordered[1]
       /\ PositionNow = (IF Len(ordered) = 1 THEN 0 ELSE 1)

\* a position left over from a longer list: the first record is spotlighted,
\* not the last one
C16_Witness ==
    /\ SelectorRan
    /\ Len(ordered) >= 3
    /\ "window_position" \in DOMAIN PrevDoc
    /\ PrevDoc["window_position"] > Len(ordered)
    /\ spotlight = ordered[1]
    /\ PositionNow = 1

----------------------------------------------------------------------------
(* Claims about interrupted runs, stated on the state an interruption      *)
(* leaves: io tells how far the run had come.                              *)

\* the run was interrupted inside a save_state: the file was open for writing
InterruptedSave ==
    /\ outcome = "crashed"
    /\ Len(io) >= 2
    /\ io[Len(io) - 1] = "truncate"

\* the run was interrupted before its final save step had begun
InterruptedBeforeFinalSave ==
    /\ outcome = "crashed"
    /\ Len(SelectSeq(io, LAMBDA e : e = "truncate")) < 2

\* what a run started now on the inputs of the interrupted run would select
RetrySelects(file) == SelectSlidingWindowAndSpotlight(ordered, window, file)

\* C12: a run interrupted at any point before its final save step leaves the
\* state file exactly as it was before the run started, and a retry selects the
\* window and the spotlight the interrupted run was selecting
C12_CrashBeforeFinalSaveKeepsState ==
    InterruptedBeforeFinalSave =>
        /\ state_file = prev_file
        /\ RetrySelects(state_file).selected = RetrySelects(prev_file).selected
        /\ RetrySelects(state_file).spotlight = RetrySelects(prev_file).spotlight

\* C14: after an interruption inside a save the state file holds a complete
\* document, the previous one or the new one, never an empty or partial one
C14_SaveIsAllOrNothing ==
    InterruptedSave =>
        /\ state_file.kind # "invalid_json"
        /\ load_state(state_file) \in {load_state(prev_file), pending}

----------------------------------------------------------------------------
(* Claims about runs on a state file of any content.                       *)

\* the document found has a key whose value has the wrong JSON type
WrongShape(doc) ==
    \E key \in {"window_position", "collection_lifecycles", "collection_titles"} :
        MarkerOf(key) \in DOMAIN doc

\* a document with the three keys, each of its type
WellFormed(doc) ==
    /\ ~WrongShape(doc)
    /\ {"window_position", "collection_lifecycles", "collection_titles"}
           \subseteq DOMAIN doc

\* the run got past the two early returns
RunGotToSelector ==
    /\ outcome \notin {"idle", "no_datasets_met_threshold", "window_not_positive"}
    /\ Len(ordered) >= 1
    /\ window >= 1

\* C15: on a state file that is absent, unreadable, no valid JSON or no JSON
\* object the run raises nothing and behaves as a first run
C15_UnusableFileActsAsFirstRun ==
    (RunGotToSelector /\ prev_file.kind # "object") =>
        /\ outcome = "generated"
        /\ spotlight = ordered[1]
        /\ prev_lifecycles = EmptyDict
        /\ PositionNow = 1 % Len(ordered)

\* C17: on a document of the wrong shape the run does not fail, uses the
\* default of the malformed field and saves a well-formed document
C17_WrongShapeNeverFails ==
    (RunGotToSelector /\ prev_file.kind = "object" /\ WrongShape(prev_file.data)) =>
        /\ outcome = "generated"
        /\ WellFormed(state_file.data)
        /\ MarkerOf("window_position") \in DOMAIN prev_file.data
               => spotlight = ordered[1]
        /\ MarkerOf("collection_lifecycles") \in DOMAIN prev_file.data
               => prev_lifecycles = EmptyDict

----------------------------------------------------------------------------
(* Claims about the tracker on a malformed value.                          *)

\* C18: a slug that carried a value that is none of spotlight, library and
\* retire is spotlight when it is the spotlight, library when it is elsewhere
\* in the window, and never holds the malformed value after the call
C18_MalformedTreatedAsUnknown ==
    outcome = "tracked" =>
        \A slug \in DOMAIN prev_lifecycles :
            prev_lifecycles[slug] = MalformedStatus =>
                /\ lifecycle_state[slug] # MalformedStatus
                /\ (slug \in Range(ordered) /\ slug = spotlight)
                       => lifecycle_state[slug] = "spotlight"
                /\ (slug \in Range(ordered) /\ slug \in Range(selected)
                    /\ slug # spotlight)
                       => lifecycle_state[slug] = "library"

----------------------------------------------------------------------------
(* Claims about the retired names a run returns.                           *)

\* the slugs whose lifecycle is retire after the run
RetiredSlugs == {k \in DOMAIN lifecycle_state : lifecycle_state[k] = "retire"}

\* the titles stored in the document before the run
StoredTitles ==
    IF "collection_titles" \in DOMAIN PrevDoc
    THEN PrevDoc["collection_titles"]
    ELSE EmptyDict

\* the display name of a slug: its title in the current dataset, else its
\* stored title, else the slug
DisplayName(slug) ==
    IF slug \in Range(ordered) \cup below THEN TitleOf(slug)
    ELSE IF slug \in DOMAIN StoredTitles THEN StoredTitles[slug]
    ELSE slug

\* C19: the names returned are the display names of exactly the slugs whose
\* lifecycle is retire after the run
C19_RetiredNamesAreTheRetiredSlugs ==
    outcome = "generated" =>
        Range(retired_names) = {DisplayName(k) : k \in RetiredSlugs}

\* a retired slug named by its title next to one named by its raw slug
C19_Witness ==
    /\ outcome = "generated"
    /\ \E k, m \in RetiredSlugs :
        /\ k \in DOMAIN StoredTitles
        /\ m \notin DOMAIN StoredTitles
        /\ m \notin Range(ordered) \cup below
        /\ StoredTitles[k] \in Range(retired_names)
        /\ m \in Range(retired_names)

\* C20: the names returned hold no duplicates
C20_RetiredNamesHaveNoDuplicates ==
    outcome = "generated" =>
        \A i, j \in 1..Len(retired_names) :
            retired_names[i] = retired_names[j] => i = j

----------------------------------------------------------------------------
(* Claims about a window size of zero or less, the place of the spotlight  *)
(* in the window and the uniqueness of the spotlight status.               *)

\* C27: with a window size of 0 or less the run returns nothing and leaves the
\* state file unread and unchanged, and so does the selector called with it
C27_NonPositiveWindowAborts ==
    (outcome # "idle" /\ window <= 0) =>
        /\ selected = <<>>
        /\ spotlight = NoSpotlight
        /\ retired_names = <<>>
        /\ io = <<>>
        /\ state_file = prev_file
        /\ SelectSlidingWindowAndSpotlight(ordered, window, prev_file)
               = SelectorWithoutSave(prev_file, <<>>, "")

\* a run with a negative window on records that meet the threshold, over a
\* document with a spotlight in it
C27_Witness ==
    /\ outcome = "window_not_positive"
    /\ window < 0
    /\ Len(ordered) >= 2
    /\ \E slug \in Slugs : StatusNow(slug) = "spotlight"
    /\ state_file = prev_file

\* the spotlight is the first or the last record of the window
SpotlightAtEdge ==
    \/ spotlight = selected[1]
    \/ spotlight = selected[Len(selected)]

\* a selector call with a window of 3 or more and a list at least as long
WideWindowCall == SelectorRan /\ window >= 3 /\ Len(ordered) >= window

\* C29 as stated: with W >= 3 and N >= W the spotlight is never the first or
\* the last record of the window, for every position in [0, N-1]
C29_SpotlightNeverAtEdge == WideWindowCall => ~SpotlightAtEdge

\* C29 as amended: with W >= 3 and N >= W the spotlight is at an edge of the
\* window exactly at the positions 0 (first record) and N-1 (last record)
C29_SpotlightAtEdgeOnlyAtListEnds ==
    WideWindowCall =>
        /\ SpotlightAtEdge <=> UsedPosition \in {0, Len(ordered) - 1}
        /\ UsedPosition = 0 => spotlight = selected[1]
        /\ UsedPosition = Len(ordered) - 1 => spotlight = selected[Len(selected)]

\* a position inside the list, the spotlight two records into a window of 5
C29_Witness ==
    /\ WideWindowCall
    /\ window = 5
    /\ UsedPosition = 3
    /\ Len(ordered) = 7
    /\ spotlight = selected[3]
    /\ ~SpotlightAtEdge

\* the slugs with status spotlight in the document on disk, before and now
SpotlightsBefore == {slug \in Slugs : StatusBefore(slug) = "spotlight"}
SpotlightsNow == {slug \in Slugs : StatusNow(slug) = "spotlight"}

\* C30 as stated: at most one slug has status spotlight; after every run with a
\* non-empty ordered list it is the spotlight of that run, and the spotlight
\* of the run before is library or retire
C30_OneSpotlightAfterEveryRun ==
    /\ Cardinality(SpotlightsNow) <= 1
    /\ (outcome # "idle" /\ Len(ordered) >= 1) =>
           /\ SpotlightsNow = {spotlight}
           /\ \A slug \in SpotlightsBefore : StatusNow(slug) \in {"library", "retire"}

\* C30 as amended: at most one slug has status spotlight; after every run with
\* a non-empty ordered list and a positive window it is the spotlight of that
\* run, and a spotlight of the run before that is not selected again is library
\* or retire
C30_OneSpotlightAfterGeneration ==
    /\ Cardinality(SpotlightsNow) <= 1
    /\ (outcome # "idle" /\ Len(ordered) >= 1 /\ window >= 1) =>
           /\ SpotlightsNow = {spotlight}
           /\ \A slug \in SpotlightsBefore \ {spotlight} :
                  StatusNow(slug) \in {"library", "retire"}

\* the spotlight of the run before stays in the window and becomes library
C30_Witness ==
    /\ outcome = "generated"
    /\ \E slug \in SpotlightsBefore :
        /\ slug # spotlight
        /\ slug \in Range(selected)
        /\ StatusNow(slug) = "library"
    /\ SpotlightsNow = {spotlight}

----------------------------------------------------------------------------
(* Claims about keys of the document that the program does not know.       *)

\* the keys of a document that are none of the three the program uses
ExtraKeys(doc) ==
    (DOMAIN doc) \ ({"window_position", "collection_lifecycles", "collection_titles"}
                    \cup {MarkerOf("window_position"),
                          MarkerOf("collection_lifecycles"),
                          MarkerOf("collection_titles")})

\* the file without those keys
WithoutExtras(file) ==
    IF file.kind = "object"
    THEN ObjectFile([k \in (DOMAIN file.data) \ ExtraKeys(file.data) |-> file.data[k]])
    ELSE file

\* the run on the same inputs and the document without its extra keys
RunWithoutExtras ==
    GenerateShowdownCollections(ordered, below, window, WithoutExtras(prev_file))

\* C28: a run on a document with extra keys returns and stores what the run on
\* the document without them does, and the saved document has the extra keys
\* with their values
C28_ExtraKeysIgnoredAndKept ==
    (outcome # "idle" /\ ExtraKeys(PrevDoc) # {}) =>
        /\ outcome = RunWithoutExtras.outcome
        /\ selected = RunWithoutExtras.selected
        /\ spotlight = RunWithoutExtras.spotlight
        /\ lifecycle_state = RunWithoutExtras.lifecycle_state
        /\ retired_names = RunWithoutExtras.retired_names
        /\ WithoutExtras(state_file) = RunWithoutExtras.file
        /\ state_file.kind = "object"
        /\ ExtraKeys(state_file.data) = ExtraKeys(PrevDoc)
        /\ \A k \in ExtraKeys(PrevDoc) : state_file.data[k] = PrevDoc[k]

\* a generating run that retires a slug, on a document with an extra key
C28_Witness ==
    /\ outcome = "generated"
    /\ ExtraKeys(PrevDoc) # {}
    /\ RetiredSlugs # {}
    /\ PositionNow # Get(PrevDoc, "window_position", 0)
    /\ ExtraKeys(state_file.data) = ExtraKeys(PrevDoc)

----------------------------------------------------------------------------
(* Claims about the sorter, stated on the last call: its inputs are        *)
(* availability and sort_mode, its result is sorted.                       *)

\* the sorter was called with one of the two sorting modes
SortedByKey == outcome \in {"sorted", "raised"} /\ sort_mode \in {"matches_desc", "matches_asc"}

\* the lists with the same records as the input, in any order
Rearrangements(items) ==
    {[i \in 1..Len(items) |-> items[f[i]]] :
        f \in {g \in [1..Len(items) -> 1..Len(items)] :
                  \A i, j \in 1..Len(items) : g[i] = g[j] => i = j}}

\* C22: under matches_desc and matches_asc no two records with different slugs
\* have equal keys, and every order of the same records sorts to the same list
C22_KeySeparatesDistinctRecords ==
    SortedByKey =>
        /\ \A i, j \in 1..Len(availability) :
               i # j => ~KeyEqual(availability[i], availability[j])
        /\ \A l \in Rearrangements(availability) :
               SortAvailability(l, sort_mode).items = sorted

\* the timestamp the key of C23 uses: the minimum for a missing or unparseable
\* published_at
TimestampOf(record) == PublishedDatetime(record).t

\* x comes before y, or with y, in the order of
\* (match_ratio, available_entries, published_datetime, title)
KeyAtMost(x, y) ==
    \/ RatioLess(x, y)
    \/ /\ RatioEqual(x, y)
       /\ \/ x.available_entries < y.available_entries
          \/ /\ x.available_entries = y.available_entries
             /\ \/ TimestampOf(x) < TimestampOf(y)
                \/ /\ TimestampOf(x) = TimestampOf(y)
                   /\ (StrLess(x.title, y.title) \/ x.title = y.title)

\* sorted holds the records of the input, each once
IsPermutationOfInput == sorted \in Rearrangements(availability)

\* C23: matches_desc returns the input records in non-increasing order of the
\* key, matches_asc in non-decreasing order
C23_SortedByTheKey ==
    SortedByKey =>
        /\ outcome = "sorted"
        /\ IsPermutationOfInput
        /\ \A i, j \in 1..Len(sorted) :
               i < j => IF sort_mode = "matches_desc"
                        THEN KeyAtMost(sorted[j], sorted[i])
                        ELSE KeyAtMost(sorted[i], sorted[j])

\* C24: sort mode none returns the input as it is, and a sort mode that is
\* none of matches_desc, matches_asc and none returns what matches_desc does
C24_NoneKeepsOrderUnknownIsDesc ==
    outcome \in {"sorted", "raised"} =>
        /\ sort_mode = "none" => (outcome = "sorted" /\ sorted = availability)
        /\ sort_mode \notin {"matches_desc", "matches_asc", "none"} =>
               /\ (outcome = "raised")
                      <=> SortAvailability(availability, "matches_desc").raised # ""
               /\ outcome = "sorted" =>
                      /\ IsPermutationOfInput
                      /\ \A i, j \in 1..Len(sorted) :
                             i < j => KeyAtMost(sorted[j], sorted[i])
                      /\ sorted = SortAvailability(availability, "matches_desc").items

\* an unknown sort mode that reorders three records, and mode none would not
C24_Witness ==
    /\ outcome = "sorted"
    /\ sort_mode = "title"
    /\ Len(availability) = 3
    /\ sorted # availability
    /\ sorted[1] = availability[3]

----------------------------------------------------------------------------
(* Claims about the evaluator, stated on the last call: its inputs are     *)
(* datasets, tmdb_index and threshold, its result is availability.         *)

\* the number of entries of an item with an identifier that is in the index
MatchCount(item) ==
    Cardinality({i \in 1..Len(item.entries) :
        /\ item.entries[i].mapping
        /\ item.entries[i].tmdb_id # 0
        /\ Str(item.entries[i].tmdb_id) \in tmdb_index})

\* a malformed item: no slug, no summary, or entries that are no list
Malformed(item) ==
    \/ Strip(item.slug) = ""
    \/ item.summary # "mapping"
    \/ item.entries_kind # "list"

\* the items that are to get a record, in input order
ItemsToKeep ==
    SelectSeq(datasets, LAMBDA it : ~Malformed(it) /\ MatchCount(it) >= threshold)

\* C25: on well-formed items the evaluator returns, in input order, one record
\* for each item with at least threshold matching entries and none for the
\* others, and the call changes neither its inputs nor the rotation state
C25_OneRecordPerItemAtThreshold ==
    /\ [](  (outcome = "evaluated" /\ \A i \in 1..Len(datasets) : ~Malformed(datasets[i]))
            => /\ Len(availability) = Len(ItemsToKeep)
               /\ \A i \in 1..Len(availability) :
                      /\ availability[i].slug = Strip(ItemsToKeep[i].slug)
                      /\ availability[i].available_entries = MatchCount(ItemsToKeep[i])
                      /\ availability[i].available_entries >= threshold)
    /\ [][UNCHANGED <<datasets, tmdb_index, threshold, rotationVars>>]_vars

\* two items at a threshold of 2: the one with two matching entries gets a
\* record, the one with a single matching entry, listed first, gets none
C25_Witness ==
    /\ outcome = "evaluated"
    /\ threshold = 2
    /\ Len(datasets) = 2
    /\ ~Malformed(datasets[1]) /\ ~Malformed(datasets[2])
    /\ MatchCount(datasets[1]) = 1
    /\ MatchCount(datasets[2]) = 2
    /\ Len(availability) = 1
    /\ availability[1].slug = Strip(datasets[2].slug)

\* C26: a malformed item gets no record, whatever the threshold, and no record
\* has an empty slug
C26_MalformedItemsAreSkipped ==
    outcome = "evaluated" =>
        /\ Len(availability) = Len(ItemsToKeep)
        /\ \A i \in 1..Len(availability) : availability[i].slug # ""

----------------------------------------------------------------------------
(* Claims about two runs of the pipeline from the same inputs.             *)

\* what the second run returns and stores is what the first did
SameAsFirstRun ==
    /\ outcome' = Again(outcome)
    /\ availability' = availability
    /\ sorted' = sorted
    /\ selected' = selected
    /\ spotlight' = spotlight
    /\ state_file' = state_file
    /\ lifecycle_state' = lifecycle_state
    /\ retired_names' = retired_names

\* C21: a second run from the same dataset, index, threshold, sort mode, window
\* and state file yields the window, spotlight, next window_position, lifecycle
\* map and retired names of the first, whatever the order in which either run
\* iterates its sets
C21_RerunYieldsTheSame == [][PipelineRerun => SameAsFirstRun]_vars

\* a second run that retired two slugs absent from the list, which it can
\* visit in two orders
C21_Witness ==
    /\ outcome = "generated again"
    /\ Len(sorted) = 1
    /\ Cardinality(MissingSlugs(prev_lifecycles, ordered)) = 2
    /\ Len(retired_names) = 2
    /\ PositionNow = 0

\* C35: every record the evaluator produces has
\* 0 <= available_entries <= total_entries, so that its match ratio lies
\* between 0 and 1, also for an item whose entries repeat an identifier
C35_AvailableWithinTotal ==
    outcome = "evaluated" =>
        \A i \in 1..Len(availability) :
            /\ 0 <= availability[i].available_entries
            /\ availability[i].available_entries <= availability[i].total_entries
            /\ 0 <= MatchRatio(availability[i])[1]
            /\ MatchRatio(availability[i])[1] <= MatchRatio(availability[i])[2]

\* an item that names one identifier twice and has all its identifiers in the
\* library: the repeats count on both sides
C35_Witness ==
    /\ outcome = "evaluated"
    /\ \E i \in 1..Len(datasets) :
        /\ datasets[i] = ItemB
        /\ \E r \in 1..Len(availability) :
            /\ availability[r].slug = "b"
            /\ availability[r].available_entries = 3
            /\ availability[r].total_entries = 4

\* the three lifecycle values
Statuses == {"spotlight", "library", "retire"}

\* the lifecycle values handed to the run's tracker are all lifecycle values
IncomingWellFormed ==
    \A k \in DOMAIN prev_lifecycles : prev_lifecycles[k] \in Statuses

\* C31: after a completed run over a non-empty ordered list of unique slugs
\* and incoming lifecycle values that are all spotlight, library or retire, a
\* key of the persisted lifecycle map has the status retire exactly when its
\* slug is outside the selected window, and every slug of the window is a key
\* with the status spotlight or library
C31_LifecyclesPartitionByWindow ==
    (outcome = "generated" /\ IncomingWellFormed) =>
        /\ LifecyclesOfDoc(state_file.data) = lifecycle_state
        /\ \A k \in DOMAIN lifecycle_state :
              (lifecycle_state[k] = "retire") <=> (k \notin Range(selected))
        /\ \A s \in Range(selected) :
              /\ s \in DOMAIN lifecycle_state
              /\ lifecycle_state[s] \in {"spotlight", "library"}

\* a run on a document that held a retired slug now in the window, a library
\* slug now outside it and a slug that has left the ordered list
C31_Witness ==
    /\ outcome = "generated"
    /\ IncomingWellFormed
    /\ \E s \in Range(selected) : StatusBefore(s) = "retire"
    /\ \E k \in Range(ordered) \ Range(selected) :
          StatusBefore(k) \in {"library", "spotlight"} /\ StatusNow(k) = "retire"
    /\ \E k \in DOMAIN lifecycle_state : k \notin Range(ordered)

\* _build_collections, line 487: one collection for every record of the
\* selected window, keyed by the record's title
CollectionTitles(sel) == {TitleOf(sel[i]) : i \in 1..Len(sel)}

\* C32: the retired display names of a run never contain the title of a
\* collection the same run emits for its selected window, also when a retired
\* slug and a slug of the window carry the same title
C32_RetiredNamesAvoidEmittedTitles ==
    outcome = "generated" =>
        Range(retired_names) \cap CollectionTitles(selected) = {}

\* the document on disk now ({} when the file holds no object)
DocNow == IF state_file.kind = "object" THEN state_file.data ELSE EmptyDict

\* the titles stored in a document ({} when it has none)
TitlesOfDoc(doc) ==
    IF "collection_titles" \in DOMAIN doc THEN doc["collection_titles"]
    ELSE EmptyDict

\* C33: no run removes a key from collection_lifecycles or collection_titles,
\* and a slug that is retire before a completed run and outside its window is
\* retire after it with its display name among the run's retired names: once
\* retired, a slug is named by every completed run until one selects it again
C33_KeysStayAndRetiredStayNamed ==
    outcome # "idle" =>
        /\ DOMAIN LifecyclesOfDoc(PrevDoc) \subseteq DOMAIN LifecyclesOfDoc(DocNow)
        /\ DOMAIN TitlesOfDoc(PrevDoc) \subseteq DOMAIN TitlesOfDoc(DocNow)
        /\ outcome = "generated" =>
              \A slug \in Slugs :
                  (StatusBefore(slug) = "retire" /\ slug \notin Range(selected)) =>
                      /\ StatusNow(slug) = "retire"
                      /\ DisplayName(slug) \in Range(retired_names)

\* a run that names a slug retired before it and gone from the dataset, and
\* takes another retired slug back into its window
C33_Witness ==
    /\ outcome = "generated"
    /\ \E slug \in Slugs \ (Range(ordered) \cup below) :
          /\ StatusBefore(slug) = "retire"
          /\ StatusNow(slug) = "retire"
          /\ DisplayName(slug) \in Range(retired_names)
    /\ \E slug \in Range(selected) :
          StatusBefore(slug) = "retire" /\ StatusNow(slug) # "retire"

\* the 0-based index in the ordered list at which a non-empty window starts
StartOf(ord, sel) == (CHOOSE i \in 1..Len(ord) : ord[i] = sel[1]) - 1

\* the last run and the run before it both selected a window, from the same
\* ordered list, and the position did not wrap in between
ConsecutiveWithoutWrap ==
    /\ outcome = "generated"
    /\ last_run.outcome = "generated"
    /\ last_run.ordered = ordered
    /\ UsedPosition >= 1

\* the slugs the last run took from spotlight or library to retire
NewlyRetired ==
    {k \in DOMAIN lifecycle_state :
        StatusBefore(k) \in {"spotlight", "library"} /\ StatusNow(k) = "retire"}

\* by at most one index to the right, and at most one slug retires
SlidesByOne ==
    /\ StartOf(ordered, selected) - StartOf(ordered, last_run.selected) \in {0, 1}
    /\ Cardinality(NewlyRetired) <= 1

\* C34 as stated: with an ordered list that does not change between two
\* consecutive runs and a position that does not wrap in between, the window
\* start moves right by at most one index and at most one slug changes from
\* spotlight or library to retire in the second run
C34_WindowSlidesByOne ==
    ConsecutiveWithoutWrap => SlidesByOne

\* C34 (amended): the same, for two consecutive runs with the same window size
C34_SameSizeWindowSlidesByOne ==
    (ConsecutiveWithoutWrap /\ last_run.window = window) => SlidesByOne

\* a second run with the same list and window size whose window starts one
\* index further right and retires the slug it left behind
C34_Witness ==
    /\ ConsecutiveWithoutWrap
    /\ last_run.window = window
    /\ Len(ordered) > window
    /\ StartOf(ordered, selected) = StartOf(ordered, last_run.selected) + 1
    /\ NewlyRetired = {last_run.selected[1]}

----------------------------------------------------------------------------
(* Two runs of generate_showdown_collections on one state file, with no    *)
(* lock between them (storage.py takes none): each run is the four file    *)
(* accesses of lines 268, 304, 134 and 175 in order, and the accesses of   *)
(* the two runs come in any order. A save is taken as one step here.       *)

\* the two runs
Runs == {1, 2}

\* the ordered lists of the two runs
OverlapLists == OrderedLists \ {<<>>}

\* a run before its first access to the file
RunAtStart(ord, w) ==
    [pc |-> "at_selector", ordered |-> ord, window |-> w, selected |-> <<>>,
     spotlight |-> NoSpotlight, pending |-> EmptyDict]

InitOverlap ==
    /\ state_file \in PipeFiles
    /\ prev_file = state_file
    /\ ordered = <<>>
    /\ window = 0
    /\ below = {}
    /\ selected = <<>>
    /\ spotlight = NoSpotlight
    /\ prev_lifecycles = EmptyDict
    /\ lifecycle_state = EmptyDict
    /\ outcome = "overlapping"
    /\ io = <<>>
    /\ trail = NoTrail
    /\ retired_names = <<>>
    /\ pending = EmptyDict
    /\ EvalUnused
    /\ last_run = NoRun
    /\ procs \in [Runs -> {RunAtStart(ord, w) : ord \in OverlapLists,
                                               w \in 1..MaxOverlapWindow}]

\* both runs have returned
BothReturned(ps) == \A i \in Runs : ps[i].pc = "returned"

\* run i takes a step that leaves it as the record p and the file as file; io
\* keeps the order in which the runs took turns at the file
OverlapStep(i, p, file) ==
    /\ procs' = [procs EXCEPT ![i] = p]
    /\ state_file' = file
    /\ io' = IF io # <<>> /\ io[Len(io)] = i THEN io ELSE Append(io, i)
    /\ outcome' = IF BothReturned([procs EXCEPT ![i] = p]) THEN "both_returned"
                  ELSE "overlapping"
    /\ UNCHANGED <<ordered, window, below, selected, spotlight, prev_file,
                   prev_lifecycles, lifecycle_state, trail, retired_names,
                   pending, evalVars, last_run>>

\* lines 267-303: the selector of run i loads the document, selects, and holds
\* the document with the advanced position
OverlapSelector(i) ==
    /\ procs[i].pc = "at_selector"
    /\ \E r \in {SelectSlidingWindowAndSpotlight(procs[i].ordered,
                                                 procs[i].window, state_file)} :
        OverlapStep(i, [procs[i] EXCEPT !.pc = "selector_saving",
                                        !.selected = r.selected,
                                        !.spotlight = r.spotlight,
                                        !.pending = r.file.data],
                    state_file)

\* line 304: the selector of run i saves its document
OverlapSelectorSaved(i) ==
    /\ procs[i].pc = "selector_saving"
    /\ OverlapStep(i, [procs[i] EXCEPT !.pc = "at_lifecycles",
                                       !.pending = EmptyDict],
                   save_state(procs[i].pending))

\* lines 134-163: run i loads the document again and updates the lifecycles
\* and the titles in it
OverlapLifecycles(i) ==
    /\ procs[i].pc = "at_lifecycles"
    /\ \E r \in {LifecyclePhase(procs[i].ordered, {}, state_file,
                    [selected |-> procs[i].selected,
                     spotlight |-> procs[i].spotlight,
                     file |-> state_file, io |-> <<>>, raised |-> ""])} :
        OverlapStep(i, [procs[i] EXCEPT !.pc = "at_final_save",
                                        !.pending = r.file.data],
                    state_file)

\* line 175: run i saves its document and returns
OverlapFinalSaved(i) ==
    /\ procs[i].pc = "at_final_save"
    /\ OverlapStep(i, [procs[i] EXCEPT !.pc = "returned",
                                       !.pending = EmptyDict],
                   save_state(procs[i].pending))

NextOverlap ==
    \E i \in Runs :
        \/ OverlapSelector(i)
        \/ OverlapSelectorSaved(i)
        \/ OverlapLifecycles(i)
        \/ OverlapFinalSaved(i)

SpecOverlap == InitOverlap /\ [][NextOverlap]_vars

\* the file after run i and then run j, one after the other, from the file the
\* two runs started with
Serial(i, j) ==
    GenerateShowdownCollections(
        procs[j].ordered, {}, procs[j].window,
        GenerateShowdownCollections(procs[i].ordered, {}, procs[i].window,
                                    prev_file).file).file

\* the file accesses of run i all came before those of run j
OneAfterTheOther(i, j) == io = <<i, j>>

====
